---------------------------- MODULE Spec2Model ----------------------------
(***************************************************************************)
(* Model of the record normalisation, de-duplication, JSON store and CSV   *)
(* merge logic of the repository (db_editor.py, the table editor, and      *)
(* linkStart.py, the character sheet that reads the same data files).      *)
(*                                                                         *)
(* Python strings are sequences of one-character strings, so that strip(), *)
(* str() and the "{} ({})" formats are computed and not assumed.  A Python *)
(* value is a tagged record [t, v]; a dict is the insertion-ordered        *)
(* sequence of its <<key, value>> pairs.  A text is a sequence of JSON     *)
(* tokens, with runs of blanks and line ends kept as tokens.               *)
(***************************************************************************)
EXTENDS Integers, Sequences, FiniteSets, TLC

VARIABLES
    records,    \* TabEditor.records
    index,      \* TabEditor.index: trimmed name -> position
    q,          \* TabEditor.var_q, the search box
    sel,        \* listbox selection: position in the listbox, 0 for none
    op,         \* the last completed handler: its name, its input (for the
                \* start and for save_file the content of the data file read or
                \* written), its outcome, and for import_csv the state before
                \* the first row and after each row
    nops,       \* the number of handlers run since the two windows started
    file,       \* the data file of the editor (TabEditor.file_path)
    model,      \* App.model of the character sheet
    fields,     \* App.var_name, var_player, var_race, var_class, var_background
    chars,      \* the files of the characters directory, by file name
    text,       \* the text handed to the two loose parsers
    parsed,     \* what the two parsers returned for text
    normIn,     \* the (value, fallback_name) handed to the two normalizers
    normOut,    \* what the two normalizers returned for normIn
    csvIn,      \* the rows csv.reader gives read_csv_rows
    csvOut,     \* what read_csv_rows returned for csvIn
    decIn,      \* the bytes of a file handed to the two text decoders
    decOut      \* what the two text decoders returned for decIn

vars == <<records, index, q, sel, op, nops, file, model, fields, chars,
          text, parsed, normIn, normOut, csvIn, csvOut, decIn, decOut>>
editorVars == <<records, index, q, sel, op, nops, file>>
charVars == <<model, fields, chars>>
pureVars == <<csvIn, csvOut, decIn, decOut>>
parseVars == <<text, parsed>>
normVars == <<normIn, normOut>>

----------------------------------------------------------------------------
(* Bounds *)

MaxRecords == 3     \* the handlers that append are disabled at this size
MaxOps == 2         \* handlers run in one session of the editor
MaxRows == 2        \* rows of one CSV import
MaxEntries == 2     \* entries of a mapping handed to the normalizers
MaxElems == 2       \* elements of a parsed list, entries of a name table
MaxLines == 3       \* lines of a JSON-Lines text

----------------------------------------------------------------------------
(* Python strings *)

\* the sequence f as a tuple (TLC compares a tuple with a function of
\* domain 1..n only in one direction)
AsTuple(f) == SubSeq(f, 1, Len(f))

\* "nbsp" is U+00A0, a blank for str.strip()
IsSpace(c) == c \in {" ", "\t", "nbsp"}

RECURSIVE lstrip(_)
lstrip(s) == IF s # <<>> /\ IsSpace(Head(s)) THEN lstrip(Tail(s)) ELSE s

RECURSIVE rstrip(_)
rstrip(s) ==
    IF s # <<>> /\ IsSpace(s[Len(s)]) THEN rstrip(SubSeq(s, 1, Len(s) - 1)) ELSE s

strip(s) == rstrip(lstrip(s))

LowerChar(c) ==
    CASE c = "A" -> "a"
      [] c = "B" -> "b"
      [] OTHER -> c

lower(s) == AsTuple([i \in 1..Len(s) |-> LowerChar(s[i])])

\* q in n, for strings
Contains(n, sub) ==
    \E i \in 0..(Len(n) - Len(sub)) : SubSeq(n, i + 1, i + Len(sub)) = sub

DigitChar(d) ==
    CASE d = 0 -> "0" [] d = 1 -> "1" [] d = 2 -> "2" [] d = 3 -> "3"
      [] d = 4 -> "4" [] d = 5 -> "5" [] d = 6 -> "6" [] d = 7 -> "7"
      [] d = 8 -> "8" [] d = 9 -> "9"

DigitVal(c) ==
    CASE c = "0" -> 0 [] c = "1" -> 1 [] c = "2" -> 2 [] c = "3" -> 3
      [] c = "4" -> 4 [] c = "5" -> 5 [] c = "6" -> 6 [] c = "7" -> 7
      [] c = "8" -> 8 [] c = "9" -> 9

\* str(n) for a natural number
RECURSIVE IntStr(_)
IntStr(n) == IF n < 10 THEN <<DigitChar(n)>> ELSE IntStr(n \div 10) \o <<DigitChar(n % 10)>>

\* int(digits)
RECURSIVE StrInt(_)
StrInt(ds) ==
    IF Len(ds) = 1 THEN DigitVal(ds[1])
    ELSE 10 * StrInt(SubSeq(ds, 1, Len(ds) - 1)) + DigitVal(ds[Len(ds)])

\* The keys and words of the program
kName == <<"n", "a", "m", "e">>
\* the two-character key U+540D U+79F0 ("mingcheng"), one element per character
kMingcheng == <<"ming", "cheng">>
kTitle == <<"t", "i", "t", "l", "e">>
kValue == <<"v", "a", "l", "u", "e">>
kItems == <<"i", "t", "e", "m", "s">>
kDesc == <<"d", "e", "s", "c">>
kSpeed == <<"s", "p", "e", "e", "d">>
kSize == <<"s", "i", "z", "e">>
kDarkvision == <<"d", "a", "r", "k", "v", "i", "s", "i", "o", "n">>
kLanguages == <<"l", "a", "n", "g", "u", "a", "g", "e", "s">>
kTraits == <<"t", "r", "a", "i", "t", "s">>
kPlayer == <<"p", "l", "a", "y", "e", "r">>
kRace == <<"r", "a", "c", "e">>
kClass == <<"c", "l", "a", "s", "s">>
kBackground == <<"b", "a", "c", "k", "g", "r", "o", "u", "n", "d">>
sMedium == <<"M", "e", "d", "i", "u", "m">>

----------------------------------------------------------------------------
(* Python values *)

PyStrV(s) == [t |-> "s", v |-> s]
PyInt(n) == [t |-> "n", v |-> n]
PyBool(b) == [t |-> "b", v |-> b]
PyList(l) == [t |-> "l", v |-> l]
PyDict(d) == [t |-> "d", v |-> d]
None == [t |-> "None", v |-> 0]

\* bool(x)
Truthy(x) ==
    CASE x.t = "s" -> x.v # <<>>
      [] x.t = "n" -> x.v # 0
      [] x.t = "b" -> x.v
      [] x.t = "l" -> x.v # <<>>
      [] x.t = "d" -> x.v # <<>>
      [] OTHER -> FALSE

\* a or b
PyOr(a, b) == IF Truthy(a) THEN a ELSE b

RECURSIVE Join(_, _)
Join(parts, sep) ==
    IF parts = <<>> THEN <<>>
    ELSE IF Len(parts) = 1 THEN parts[1]
    ELSE parts[1] \o sep \o Join(Tail(parts), sep)

\* repr(x) and str(x); str differs from repr on strings only
RECURSIVE PyRepr(_)
PyRepr(x) ==
    CASE x.t = "s" -> <<"'">> \o x.v \o <<"'">>
      [] x.t = "n" -> IntStr(x.v)
      [] x.t = "b" -> IF x.v THEN <<"T", "r", "u", "e">> ELSE <<"F", "a", "l", "s", "e">>
      [] x.t = "l" ->
            <<"[">> \o Join([i \in 1..Len(x.v) |-> PyRepr(x.v[i])], <<",", " ">>) \o <<"]">>
      [] x.t = "d" ->
            <<"{">> \o Join([i \in 1..Len(x.v) |->
                                PyRepr(PyStrV(x.v[i][1])) \o <<":", " ">> \o PyRepr(x.v[i][2])],
                            <<",", " ">>) \o <<"}">>
      [] OTHER -> <<"N", "o", "n", "e">>

PyStr(x) == IF x.t = "s" THEN x.v ELSE PyRepr(x)

----------------------------------------------------------------------------
(* Python dicts: insertion-ordered sequences of <<key, value>> *)

HasKey(d, k) == \E i \in 1..Len(d) : d[i][1] = k

KeyPos(d, k) == CHOOSE i \in 1..Len(d) : d[i][1] = k

\* d.get(k, dflt)
DictGet(d, k, dflt) == IF HasKey(d, k) THEN d[KeyPos(d, k)][2] ELSE dflt

\* d[k] = v
DictSet(d, k, v) ==
    IF HasKey(d, k) THEN [d EXCEPT ![KeyPos(d, k)] = <<k, v>>]
    ELSE Append(d, <<k, v>>)

\* d.update(items)
RECURSIVE UpdateAll(_, _)
UpdateAll(d, items) ==
    IF items = <<>> THEN d ELSE UpdateAll(DictSet(d, items[1][1], items[1][2]), Tail(items))

Keys(d) == {d[i][1] : i \in 1..Len(d)}

\* r.get("name", "") of a record, then str(...).strip()
NameOf(r) == strip(PyStr(DictGet(r.v, kName, PyStrV(<<>>))))

----------------------------------------------------------------------------
(* The two record normalizers *)

\* the copy loop of both normalizers: keys are trimmed, entries with an empty
\* trimmed key are left out, None becomes ""
RECURSIVE CopyItems(_, _)
CopyItems(items, out) ==
    IF items = <<>> THEN out
    ELSE LET k == items[1][1]
             v == items[1][2]
             kk == strip(k)
         IN  CopyItems(Tail(items),
                       IF kk # <<>>
                       THEN DictSet(out, kk, IF v.t # "None" THEN v ELSE PyStrV(<<>>))
                       ELSE out)

\* db_editor.py: read_json_list.norm_one
norm_one(rec, fallback_name) ==
    IF rec.t = "d" THEN
        LET out == CopyItems(rec.v, <<>>)
            nm == PyOr(PyOr(DictGet(out, kMingcheng, None), DictGet(out, kTitle, None)),
                       fallback_name)
            out2 == IF ~HasKey(out, kName) /\ nm.t # "None"
                    THEN DictSet(out, kName, PyStrV(PyStr(nm)))
                    ELSE out
        IN  IF Truthy(DictGet(out2, kName, None)) THEN PyDict(out2) ELSE None
    ELSE IF rec.t = "s" THEN PyDict(<< <<kName, rec>> >>)
    ELSE None

\* linkStart.py: _normalize_record
normalize_record(rec, fallback_name) ==
    IF rec.t # "d" THEN
        IF rec.t = "s" THEN PyDict(<< <<kName, rec>> >>) ELSE None
    ELSE
        LET name0 == DictGet(rec.v, kName, None)
            name == IF ~Truthy(name0)
                    THEN PyOr(PyOr(DictGet(rec.v, kMingcheng, None),
                                   DictGet(rec.v, kTitle, None)),
                              fallback_name)
                    ELSE name0
            out == CopyItems(rec.v, <<>>)
            out2 == IF name.t # "None" /\ ~HasKey(out, kName)
                    THEN DictSet(out, kName, PyStrV(PyStr(name)))
                    ELSE out
        IN  IF Truthy(DictGet(out2, kName, None)) THEN PyDict(out2) ELSE None

----------------------------------------------------------------------------
(* Parsed documents *)

\* read_json_list that forgets to hand the key of a name table to norm_one
db_document_nofallback(data) ==
    IF data.t = "l" THEN
        SelectSeq([i \in 1..Len(data.v) |-> norm_one(data.v[i], None)], Truthy)
    ELSE IF data.t = "d" THEN
        IF DictGet(data.v, kItems, None).t = "l" THEN
            LET items == DictGet(data.v, kItems, None).v
            IN  SelectSeq([i \in 1..Len(items) |-> norm_one(items[i], None)], Truthy)
        ELSE
            SelectSeq([i \in 1..Len(data.v) |->
                          LET k == data.v[i][1]
                              v == data.v[i][2]
                          IN  IF v.t = "d" THEN norm_one(v, None)
                              ELSE norm_one(PyDict(<< <<kName, PyStrV(k)>>, <<kValue, v>> >>),
                                            None)],
                      Truthy)
    ELSE <<>>

\* db_editor.py: read_json_list, the dispatch on the parsed document
db_document(data) ==
    IF data.t = "l" THEN
        SelectSeq([i \in 1..Len(data.v) |-> norm_one(data.v[i], None)], Truthy)
    ELSE IF data.t = "d" THEN
        IF DictGet(data.v, kItems, None).t = "l" THEN
            LET items == DictGet(data.v, kItems, None).v
            IN  SelectSeq([i \in 1..Len(items) |-> norm_one(items[i], None)], Truthy)
        ELSE
            SelectSeq([i \in 1..Len(data.v) |->
                          LET k == data.v[i][1]
                              v == data.v[i][2]
                          IN  IF v.t = "d" THEN norm_one(v, PyStrV(k))
                              ELSE norm_one(PyDict(<< <<kName, PyStrV(k)>>, <<kValue, v>> >>),
                                            None)],
                      Truthy)
    ELSE <<>>

\* linkStart.py: read_json_records, the dispatch on the parsed document
ls_document(data) ==
    IF data.t = "l" THEN
        SelectSeq([i \in 1..Len(data.v) |-> normalize_record(data.v[i], None)], Truthy)
    ELSE IF data.t = "d" THEN
        IF DictGet(data.v, kItems, None).t = "l" THEN
            LET items == DictGet(data.v, kItems, None).v
            IN  SelectSeq([i \in 1..Len(items) |-> normalize_record(items[i], None)], Truthy)
        ELSE
            SelectSeq([i \in 1..Len(data.v) |->
                          LET k == data.v[i][1]
                              v == data.v[i][2]
                          IN  IF v.t = "d" THEN normalize_record(v, PyStrV(k))
                              ELSE normalize_record(
                                       PyDict(<< <<kName, PyStrV(k)>>, <<kValue, v>> >>), None)],
                      Truthy)
    ELSE <<>>

\* the loop "keep the first record of each trimmed name, drop empty names"
RECURSIVE DedupLoop(_, _, _)
DedupLoop(recs, seen, out) ==
    IF recs = <<>> THEN out
    ELSE LET r == recs[1]
             nm == IF r.t = "d" THEN NameOf(r) ELSE <<>>
         IN  IF nm = <<>> \/ nm \in seen
             THEN DedupLoop(Tail(recs), seen, out)
             ELSE DedupLoop(Tail(recs), seen \cup {nm}, Append(out, r))

\* linkStart.py: read_json_records, the closing de-duplication
ls_dedup(recs) == DedupLoop(recs, {}, <<>>)

IsDict(r) == r.t = "d"

\* apply_records without its "seen" set: every mapping is kept
apply_records_keepall(recs) == SelectSeq(recs, IsDict)

\* db_editor.py: TabEditor.apply_records, the value given to self.records
apply_records(recs) == DedupLoop(recs, {}, <<>>)

\* db_editor.py: TabEditor.rebuild_index
RECURSIVE IndexLoop(_, _, _)
IndexLoop(recs, i, idx) ==
    IF i > Len(recs) THEN idx
    ELSE LET nm == NameOf(recs[i])
         IN  IF nm # <<>> /\ nm \notin DOMAIN idx
             THEN IndexLoop(recs, i + 1, [n \in DOMAIN idx \cup {nm} |->
                                             IF n = nm THEN i ELSE idx[n]])
             ELSE IndexLoop(recs, i + 1, idx)

EmptyIndex == [n \in {} |-> 0]

rebuild_index(recs) == IndexLoop(recs, 1, EmptyIndex)

----------------------------------------------------------------------------
(* Texts: sequences of JSON tokens *)

Punct(c) == [t |-> "p", v |-> c]
NL == [t |-> "nl", v |-> 1]
Blanks(n) == [t |-> "sp", v |-> n]
NotJson == [t |-> "bad", v |-> "NOT JSON"]

IsPunct(tk, c) == tk.t = "p" /\ tk.v = c
IsBlankTok(tk) == tk.t \in {"nl", "sp"}

\* the body of a JSON string literal: quote and backslash are escaped
RECURSIVE Escape(_)
Escape(s) ==
    IF s = <<>> THEN <<>>
    ELSE IF Head(s) \in {"\"", "\\"} THEN <<"\\", Head(s)>> \o Escape(Tail(s))
    ELSE <<Head(s)>> \o Escape(Tail(s))

RECURSIVE Unescape(_)
Unescape(s) ==
    IF s = <<>> THEN <<>>
    ELSE IF Head(s) = "\\" /\ Len(s) >= 2 THEN <<s[2]>> \o Unescape(Tail(Tail(s)))
    ELSE <<Head(s)>> \o Unescape(Tail(s))

StrTok(s) == [t |-> "str", v |-> Escape(s)]
NumTok(n) == [t |-> "num", v |-> IntStr(n)]
LitTok(w) == [t |-> "lit", v |-> w]

Indent(n) == IF n = 0 THEN <<NL>> ELSE <<NL, Blanks(n)>>

\* json.dumps(x, indent=2, ensure_ascii=False), x nested at the given level
RECURSIVE Dumps(_, _)
Dumps(x, level) ==
    CASE x.t = "s" -> <<StrTok(x.v)>>
      [] x.t = "n" -> <<NumTok(x.v)>>
      [] x.t = "b" -> <<LitTok(IF x.v THEN "true" ELSE "false")>>
      [] x.t = "l" ->
            IF x.v = <<>> THEN <<Punct("["), Punct("]")>>
            ELSE <<Punct("[")>>
                 \o Join([i \in 1..Len(x.v) |->
                             Indent(2 * (level + 1)) \o Dumps(x.v[i], level + 1)],
                         <<Punct(",")>>)
                 \o Indent(2 * level) \o <<Punct("]")>>
      [] x.t = "d" ->
            IF x.v = <<>> THEN <<Punct("{"), Punct("}")>>
            ELSE <<Punct("{")>>
                 \o Join([i \in 1..Len(x.v) |->
                             Indent(2 * (level + 1))
                             \o <<StrTok(x.v[i][1]), Punct(":"), Blanks(1)>>
                             \o Dumps(x.v[i][2], level + 1)],
                         <<Punct(",")>>)
                 \o Indent(2 * level) \o <<Punct("}")>>
      [] OTHER -> <<LitTok("null")>>

\* json.dumps(x) on one line, as the lines of a JSON-Lines file are written
RECURSIVE DumpsLine(_)
DumpsLine(x) ==
    CASE x.t = "s" -> <<StrTok(x.v)>>
      [] x.t = "n" -> <<NumTok(x.v)>>
      [] x.t = "b" -> <<LitTok(IF x.v THEN "true" ELSE "false")>>
      [] x.t = "l" ->
            <<Punct("[")>>
            \o Join([i \in 1..Len(x.v) |-> DumpsLine(x.v[i])], <<Punct(","), Blanks(1)>>)
            \o <<Punct("]")>>
      [] x.t = "d" ->
            <<Punct("{")>>
            \o Join([i \in 1..Len(x.v) |->
                        <<StrTok(x.v[i][1]), Punct(":"), Blanks(1)>> \o DumpsLine(x.v[i][2])],
                    <<Punct(","), Blanks(1)>>)
            \o <<Punct("}")>>
      [] OTHER -> <<LitTok("null")>>

ParseFail == [ok |-> FALSE, val |-> None, pos |-> 0]
ParseOk(x, p) == [ok |-> TRUE, val |-> x, pos |-> p]

\* the JSON decoder on a text without blanks, from position i
RECURSIVE ParseValue(_, _)
RECURSIVE ParseElems(_, _, _)
RECURSIVE ParseMembers(_, _, _)
ParseValue(ts, i) ==
    IF i > Len(ts) THEN ParseFail
    ELSE LET tk == ts[i]
         IN  CASE tk.t = "str" -> ParseOk(PyStrV(Unescape(tk.v)), i + 1)
               [] tk.t = "num" -> ParseOk(PyInt(StrInt(tk.v)), i + 1)
               [] tk.t = "lit" ->
                     ParseOk(IF tk.v = "null" THEN None ELSE PyBool(tk.v = "true"), i + 1)
               [] IsPunct(tk, "[") ->
                     IF i + 1 <= Len(ts) /\ IsPunct(ts[i + 1], "]")
                     THEN ParseOk(PyList(<<>>), i + 2)
                     ELSE ParseElems(ts, i + 1, <<>>)
               [] IsPunct(tk, "{") ->
                     IF i + 1 <= Len(ts) /\ IsPunct(ts[i + 1], "}")
                     THEN ParseOk(PyDict(<<>>), i + 2)
                     ELSE ParseMembers(ts, i + 1, <<>>)
               [] OTHER -> ParseFail

ParseElems(ts, i, acc) ==
    LET r == ParseValue(ts, i)
    IN  IF ~r.ok \/ r.pos > Len(ts) THEN ParseFail
        ELSE IF IsPunct(ts[r.pos], ",") THEN ParseElems(ts, r.pos + 1, Append(acc, r.val))
        ELSE IF IsPunct(ts[r.pos], "]") THEN ParseOk(PyList(Append(acc, r.val)), r.pos + 1)
        ELSE ParseFail

\* a repeated key keeps its first place and takes the last value, as dict does
ParseMembers(ts, i, acc) ==
    IF i + 1 > Len(ts) \/ ts[i].t # "str" \/ ~IsPunct(ts[i + 1], ":") THEN ParseFail
    ELSE LET k == Unescape(ts[i].v)
             r == ParseValue(ts, i + 2)
         IN  IF ~r.ok \/ r.pos > Len(ts) THEN ParseFail
             ELSE IF IsPunct(ts[r.pos], ",")
                  THEN ParseMembers(ts, r.pos + 1, DictSet(acc, k, r.val))
             ELSE IF IsPunct(ts[r.pos], "}")
                  THEN ParseOk(PyDict(DictSet(acc, k, r.val)), r.pos + 1)
             ELSE ParseFail

NotBlankTok(tk) == ~IsBlankTok(tk)

\* json.loads(text): one value, blanks around and between tokens ignored
json_loads(txt) ==
    LET ts == SelectSeq(txt, NotBlankTok)
        r == ParseValue(ts, 1)
    IN  IF r.ok /\ r.pos = Len(ts) + 1 THEN r ELSE ParseFail

\* text.splitlines()
RECURSIVE SplitLoop(_, _, _)
SplitLoop(txt, cur, out) ==
    IF txt = <<>> THEN (IF cur = <<>> THEN out ELSE Append(out, cur))
    ELSE IF Head(txt).t = "nl" THEN SplitLoop(Tail(txt), <<>>, Append(out, cur))
    ELSE SplitLoop(Tail(txt), Append(cur, Head(txt)), out)

splitlines(txt) == SplitLoop(txt, <<>>, <<>>)

IsBlankText(txt) == \A i \in 1..Len(txt) : IsBlankTok(txt[i])

----------------------------------------------------------------------------
(* Files and the two loaders *)

Missing == [exists |-> FALSE, data |-> <<>>]
FileOf(txt) == [exists |-> TRUE, data |-> txt]

\* try_read_text / _try_read_text: the text, or None (ok = FALSE) when the
\* file cannot be opened or holds nothing but blanks
try_read_text(f) ==
    IF f.exists /\ ~IsBlankText(f.data)
    THEN [ok |-> TRUE, text |-> f.data]
    ELSE [ok |-> FALSE, text |-> <<>>]

\* read_json_list with the try around the whole loop instead of around one
\* line: the first line that is no JSON ends the read
RECURSIVE db_lines_abort(_, _)
db_lines_abort(lines, arr) ==
    IF lines = <<>> THEN arr
    ELSE LET line == Head(lines)
         IN  IF IsBlankText(line) THEN db_lines_abort(Tail(lines), arr)
             ELSE LET r == json_loads(line)
                      x == IF r.ok THEN norm_one(r.val, None) ELSE None
                  IN  IF ~r.ok THEN arr
                      ELSE db_lines_abort(Tail(lines), IF Truthy(x) THEN Append(arr, x) ELSE arr)

\* db_editor.py: read_json_list, the JSON-Lines branch
RECURSIVE db_lines(_, _)
db_lines(lines, arr) ==
    IF lines = <<>> THEN arr
    ELSE LET line == Head(lines)
         IN  IF IsBlankText(line) THEN db_lines(Tail(lines), arr)
             ELSE LET r == json_loads(line)
                      x == IF r.ok THEN norm_one(r.val, None) ELSE None
                  IN  db_lines(Tail(lines), IF Truthy(x) THEN Append(arr, x) ELSE arr)

\* db_editor.py: read_json_list
read_json_list(f) ==
    LET t == try_read_text(f)
    IN  IF ~f.exists \/ ~t.ok THEN <<>>
        ELSE LET r == json_loads(t.text)
             IN  IF ~r.ok THEN db_lines(splitlines(t.text), <<>>)
                 ELSE db_document(r.val)

\* linkStart.py: read_json_records, the JSON-Lines branch
RECURSIVE ls_lines(_, _)
ls_lines(lines, recs) ==
    IF lines = <<>> THEN recs
    ELSE LET line == Head(lines)
         IN  IF IsBlankText(line) THEN ls_lines(Tail(lines), recs)
             ELSE LET r == json_loads(line)
                      norm == IF r.ok THEN normalize_record(r.val, None) ELSE None
                  IN  ls_lines(Tail(lines), IF Truthy(norm) THEN Append(recs, norm) ELSE recs)

\* linkStart.py: read_json_records
read_json_records(f) ==
    LET t == try_read_text(f)
    IN  IF ~f.exists \/ ~t.ok THEN <<>>
        ELSE LET r == json_loads(t.text)
             IN  IF ~r.ok THEN ls_lines(splitlines(t.text), <<>>)
                 ELSE ls_dedup(ls_document(r.val))

\* db_editor.py: write_json_list, the content of the file after a write
write_json_list(recs) == FileOf(Dumps(PyList(recs), 0))

\* the points of a write at which an I/O error is taken to strike: before
\* the first token reaches the file and half way through
FailPoints(n) == {0, n \div 2}

\* with open(path, "w") as f: json.dump(...): the file afterwards and whether
\* an exception left the with block.  open() fails and leaves the file as it
\* was; once open() has truncated the file, a failing write or flush leaves
\* what was written so far
WriteOutcomes(old, new) ==
    {[file |-> new, raised |-> FALSE], [file |-> old, raised |-> TRUE]}
    \cup {[file |-> FileOf(SubSeq(new.data, 1, k)), raised |-> TRUE] :
             k \in FailPoints(Len(new.data))}

----------------------------------------------------------------------------
(* The normalizers applied to one value *)

NormKeys == {kName, <<" ">> \o kName, kMingcheng, <<" ">> \o kMingcheng \o <<" ">>,
             kTitle, <<" ">>, <<"x">>}
NormVals == {PyStrV(<<"A">>), PyStrV(<<"B">>), PyStrV(<<>>), None, PyInt(0)}
NormEntries == {<<k, v>> : k \in NormKeys, v \in NormVals}

\* the mappings of at most n entries with pairwise distinct keys
RECURSIVE DictsUpTo(_, _)
DictsUpTo(entries, n) ==
    IF n = 0 THEN {<<>>}
    ELSE LET smaller == DictsUpTo(entries, n - 1)
         IN  smaller \cup {Append(d, e) : d \in {x \in smaller : Len(x) = n - 1},
                                           e \in entries}

DistinctKeys(d) == \A i, j \in 1..Len(d) : d[i][1] = d[j][1] => i = j

NormDicts == {PyDict(d) : d \in {x \in DictsUpTo(NormEntries, MaxEntries) : DistinctKeys(x)}}
NormOthers == {PyStrV(<<"A">>), PyStrV(<<>>), PyInt(5), None, PyList(<<>>), PyBool(TRUE)}
NormFallbacks == {None, PyStrV(<<"K">>), PyStrV(<<>>)}
NormInputs == {[rec |-> r, fb |-> f] : r \in NormDicts \cup NormOthers, f \in NormFallbacks}

NormIdle == [fn |-> "none", out |-> None]

\* db_editor.py: one call of norm_one
CallNormOne ==
    /\ normOut' = [fn |-> "norm_one", out |-> norm_one(normIn.rec, normIn.fb)]
    /\ UNCHANGED <<normIn, editorVars, charVars, parseVars, pureVars>>

\* linkStart.py: one call of _normalize_record
CallNormalizeRecord ==
    /\ normOut' = [fn |-> "_normalize_record",
                   out |-> normalize_record(normIn.rec, normIn.fb)]
    /\ UNCHANGED <<normIn, editorVars, charVars, parseVars, pureVars>>

\* what the variables of the other components hold while one is exercised
OpIdle == [name |-> "none"]
EditorIdle ==
    /\ records = <<>>
    /\ index = EmptyIndex
    /\ q = <<>>
    /\ sel = 0
    /\ op = OpIdle
    /\ nops = 0
    /\ file = Missing

TextIdle == [shape |-> "none", body |-> None, file |-> Missing]
ParsedIdle == [fn |-> "none", out |-> <<>>, doc |-> <<>>, load |-> <<>>]
ParseIdle == text = TextIdle /\ parsed = ParsedIdle

\* App.__init__: self.model and the five StringVars
CharKeys == <<kName, kPlayer, kRace, kClass, kBackground>>
Model0 == AsTuple([i \in 1..Len(CharKeys) |-> <<CharKeys[i], PyStrV(<<>>)>>])
Fields0 == [k \in {CharKeys[i] : i \in 1..Len(CharKeys)} |-> <<>>]

\* "".join(c for c in name if c.isalnum() or c in (" ","_","-")).rstrip() or "Unnamed"
Unnamed == <<"U", "n", "n", "a", "m", "e", "d">>
SafeChar(c) == c \in {"X", "Y", "5", " ", "_", "-"}
SafeName(name) ==
    LET kept == rstrip(SelectSeq(name, SafeChar))
    IN  IF kept = <<>> THEN Unnamed ELSE kept

\* the names of the files of the characters directory
CharPaths == {<<"X">>, Unnamed}
Chars0 == [p \in CharPaths |-> Missing]

CharIdle == model = Model0 /\ fields = Fields0 /\ chars = Chars0

CsvNone == [exists |-> FALSE, rows |-> <<>>]
CsvIdle == [fn |-> "none", out |-> <<>>]
DecNone == [exists |-> FALSE, bytes |-> <<>>, ansi |-> "none"]
DecIdle == [fn |-> "none", out |-> None]
PureIdle == csvIn = CsvNone /\ csvOut = CsvIdle /\ decIn = DecNone /\ decOut = DecIdle

NormNone == [rec |-> None, fb |-> None]
NormIdleVars == normIn = NormNone /\ normOut = NormIdle

InitNorm ==
    /\ normIn \in NormInputs
    /\ normOut = NormIdle
    /\ EditorIdle
    /\ CharIdle
    /\ ParseIdle
    /\ PureIdle

NextNorm == CallNormOne \/ CallNormalizeRecord

SpecNorm == InitNorm /\ [][NextNorm]_vars

----------------------------------------------------------------------------
(* C9 *)

\* the entries of a mapping as the claim copies them: under the trimmed key,
\* at the place of the key's first occurrence, with the value of its last
\* occurrence, None read as ""
ClaimCopy(items) ==
    LET n == Len(items)
        tk(i) == strip(items[i][1])
        IsFirst(i) == tk(i) # <<>> /\ \A j \in 1..(i - 1) : tk(j) # tk(i)
        LastOf(i) == CHOOSE j \in i..n : tk(j) = tk(i) /\ \A m \in (j + 1)..n : tk(m) # tk(i)
        firsts == SelectSeq([i \in 1..n |-> i], IsFirst)
        val(j) == IF items[j][2].t = "None" THEN PyStrV(<<>>) ELSE items[j][2]
    IN  AsTuple([p \in 1..Len(firsts) |-> <<tk(firsts[p]), val(LastOf(firsts[p]))>>])

\* what the claim makes of a flat mapping and a fallback name
ClaimNormalize(items, fb) ==
    LET copied == ClaimCopy(items)
        fromM == DictGet(copied, kMingcheng, None)
        fromT == DictGet(copied, kTitle, None)
        nm == IF Truthy(fromM) THEN fromM ELSE IF Truthy(fromT) THEN fromT ELSE fb
        named == IF HasKey(copied, kName) \/ nm.t = "None" THEN copied
                 ELSE Append(copied, <<kName, PyStrV(PyStr(nm))>>)
    IN  IF HasKey(named, kName) /\ Truthy(DictGet(named, kName, None))
        THEN PyDict(named) ELSE None

\* C9: on a flat mapping both normalizers copy the entries with a non-empty
\* trimmed key (None as ""), take a missing name from the copied
\* "mingcheng", else "title", else the fallback name, and reject the mapping
\* when the name is then absent or empty; a value that is neither a mapping
\* nor a string is rejected
C9_NormalizeContract ==
    normOut.fn # "none" =>
        /\ normIn.rec.t = "d" => normOut.out = ClaimNormalize(normIn.rec.v, normIn.fb)
        /\ normIn.rec.t \notin {"d", "s"} => normOut.out = None

\* the same contract for db_editor's norm_one alone
C9_NormOneContract ==
    normOut.fn = "norm_one" =>
        /\ normIn.rec.t = "d" => normOut.out = ClaimNormalize(normIn.rec.v, normIn.fb)
        /\ normIn.rec.t \notin {"d", "s"} => normOut.out = None

----------------------------------------------------------------------------
(* The two loaders applied to one text *)

Rec1(k1, v1) == PyDict(<< <<k1, v1>> >>)
Rec2(k1, v1, k2, v2) == PyDict(<< <<k1, v1>>, <<k2, v2>> >>)
sA == PyStrV(<<"A">>)
sB == PyStrV(<<"B">>)
sEmpty == PyStrV(<<>>)
kX == <<"x">>

\* elements of a list document
ListElems ==
    { Rec2(kName, sA, kX, PyInt(1)), Rec2(kName, sA, kX, PyInt(2)), Rec1(kName, sB),
      Rec1(kName, PyStrV(<<" ", "A">>)), Rec1(kName, sEmpty), Rec1(kName, PyStrV(<<" ">>)),
      Rec1(<<" ">> \o kMingcheng \o <<" ">>, PyStrV(<<"C">>)), Rec1(kTitle, PyStrV(<<"T">>)),
      Rec1(kName, PyInt(0)), Rec1(kName, PyInt(5)),
      Rec1(kX, PyInt(1)), sA, sEmpty, PyInt(1) }

\* keys and values of a name table
TableKeys == {<<"A">>, <<"B">>, <<>>, <<" ", "A">>, kItems}
TableVals == { Rec1(kDesc, PyStrV(<<"d">>)), Rec2(kName, PyStrV(<<"Z">>), kDesc, sEmpty),
               PyStrV(<<"v">>), None, PyInt(1), PyList(<<sA>>) }
TableEntries == {<<k, v>> : k \in TableKeys, v \in TableVals}

\* lines of a JSON-Lines text: a value on one line, a line that is no JSON,
\* a blank line
BadLine == [t |-> "bad", v |-> 0]
BlankLine == [t |-> "blank", v |-> 0]
LineVals ==
    { Rec1(kName, sA), Rec2(kName, sA, kX, PyInt(2)), Rec1(kName, sB), Rec1(kName, sEmpty),
      Rec1(kMingcheng, PyStrV(<<"C">>)), sEmpty, PyList(<<sA>>), BadLine, BlankLine }

\* the sequences of 1..n elements of a set
RECURSIVE SeqsUpTo(_, _)
SeqsUpTo(S, n) ==
    IF n = 0 THEN {<<>>}
    ELSE LET smaller == SeqsUpTo(S, n - 1)
         IN  smaller \cup {Append(x, e) : x \in {y \in smaller : Len(y) = n - 1}, e \in S}

LineText(l) ==
    IF l.t = "bad" THEN <<NotJson>>
    ELSE IF l.t = "blank" THEN <<Blanks(1)>>
    ELSE DumpsLine(l)

ListTexts ==
    {[shape |-> "list", body |-> PyList(l), file |-> FileOf(Dumps(PyList(l), 0))] :
        l \in SeqsUpTo(ListElems, MaxElems)}

ItemsTexts ==
    {[shape |-> "items", body |-> Rec1(kItems, PyList(l)),
      file |-> FileOf(DumpsLine(Rec1(kItems, PyList(l))))] :
        l \in SeqsUpTo(ListElems, MaxElems)}

TableTexts ==
    {[shape |-> "table", body |-> PyDict(d), file |-> FileOf(Dumps(PyDict(d), 0))] :
        d \in {x \in DictsUpTo(TableEntries, MaxElems) :
                  DistinctKeys(x) /\ DictGet(x, kItems, None).t # "l"}}

ScalarTexts ==
    {[shape |-> "scalar", body |-> x, file |-> FileOf(DumpsLine(x))] :
        x \in {PyStrV(<<"a", "b", "c">>), PyInt(7), None, PyBool(TRUE)}}

LinesTexts ==
    {[shape |-> "lines", body |-> PyList(l),
      file |-> FileOf(Join([i \in 1..Len(l) |-> LineText(l[i])], <<NL>>))] :
        l \in SeqsUpTo(LineVals, MaxLines) \ {<<>>}}

Texts == ListTexts \cup ItemsTexts \cup TableTexts \cup ScalarTexts \cup LinesTexts
         \cup {[shape |-> "missing", body |-> None, file |-> Missing]}

\* db_editor.py: read_json_list, then apply_records as TabEditor.__init__ does
CallReadJsonList ==
    /\ parsed' = LET t == try_read_text(text.file)
                     r == json_loads(t.text)
                     out == read_json_list(text.file)
                 IN  [fn |-> "read_json_list",
                      out |-> out,
                      doc |-> IF t.ok /\ r.ok THEN db_document(r.val) ELSE <<>>,
                      load |-> apply_records(out)]
    /\ UNCHANGED <<text, editorVars, charVars, normVars, pureVars>>

\* linkStart.py: read_json_records; doc is the list before the closing
\* de-duplication
CallReadJsonRecords ==
    /\ parsed' = LET t == try_read_text(text.file)
                     r == json_loads(t.text)
                     out == read_json_records(text.file)
                 IN  [fn |-> "read_json_records",
                      out |-> out,
                      doc |-> IF t.ok /\ r.ok THEN ls_document(r.val) ELSE <<>>,
                      load |-> out]
    /\ UNCHANGED <<text, editorVars, charVars, normVars, pureVars>>

InitParse ==
    /\ text \in Texts
    /\ parsed = ParsedIdle
    /\ EditorIdle
    /\ CharIdle
    /\ NormIdleVars
    /\ PureIdle

NextParse == CallReadJsonList \/ CallReadJsonRecords

SpecParse == InitParse /\ [][NextParse]_vars

----------------------------------------------------------------------------
(* C2, C3, C7, C8 *)

HasNonEmptyName(r) ==
    /\ r.t = "d"
    /\ HasKey(r.v, kName)
    /\ PyStr(DictGet(r.v, kName, None)) # <<>>

\* C2: every record returned by the loose parser (read_json_list,
\* read_json_records) has a non-empty name, whatever the shape of the text
C2_ParsedNamesNonEmpty ==
    parsed.fn # "none" => \A i \in 1..Len(parsed.out) : HasNonEmptyName(parsed.out[i])

\* the records of a sequence whose trimmed name is not empty and occurs at no
\* earlier place
KeepFirstPerName(recs) ==
    LET IsKept(i) == NameOf(recs[i]) # <<>>
                     /\ \A j \in 1..(i - 1) : NameOf(recs[j]) # NameOf(recs[i])
        kept == SelectSeq([i \in 1..Len(recs) |-> i], IsKept)
    IN  AsTuple([p \in 1..Len(kept) |-> recs[kept[p]]])

UniqueNames(recs) ==
    \A i, j \in 1..Len(recs) : NameOf(recs[i]) = NameOf(recs[j]) => i = j

\* the normalized sequence of a file, before any de-duplication
Normalized(fn, f) ==
    LET t == try_read_text(f)
        r == json_loads(t.text)
    IN  IF ~t.ok THEN <<>>
        ELSE IF fn = "read_json_list"
             THEN (IF r.ok THEN db_document(r.val) ELSE db_lines(splitlines(t.text), <<>>))
             ELSE (IF r.ok THEN ls_document(r.val) ELSE ls_lines(splitlines(t.text), <<>>))

\* C3: what load returns is unique by trimmed name for every shape, JSON-Lines
\* included: it is the normalized sequence with the first record of each
\* trimmed name kept, in encounter order
C3_LoadUniqueFirstWins ==
    parsed.fn # "none" =>
        /\ UniqueNames(parsed.load)
        /\ parsed.load = KeepFirstPerName(Normalized(parsed.fn, text.file))

\* strict parsing of a JSON-Lines text fails unless it holds exactly one value
\* and no line that is no JSON
StrictFails(lines) ==
    \/ \E i \in 1..Len(lines) : lines[i].t = "bad"
    \/ Cardinality({i \in 1..Len(lines) : lines[i].t \notin {"bad", "blank"}}) # 1

NormalizeBy(fn, x, fb) ==
    IF fn = "read_json_list" THEN norm_one(x, fb) ELSE normalize_record(x, fb)

\* the normalized records of the good lines, in line order
GoodLines(fn, lines) ==
    SelectSeq([i \in 1..Len(lines) |->
                  IF lines[i].t \in {"bad", "blank"} THEN None
                  ELSE NormalizeBy(fn, lines[i], None)],
              Truthy)

\* C7: when strict parsing of the whole text fails, the result of the loose
\* parser is exactly the normalized records of the lines that parse and
\* normalize, in line order; a bad line is skipped and does not end the read
C7_JsonLinesFallback ==
    (parsed.fn # "none" /\ text.shape = "lines" /\ StrictFails(text.body.v)) =>
        parsed.out = GoodLines(parsed.fn, text.body.v)

C7_Witness ==
    /\ parsed.fn # "none"
    /\ text.shape = "lines"
    /\ text.body.v = <<Rec1(kName, sA), BadLine, Rec1(kName, sB)>>
    /\ parsed.out = <<Rec1(kName, sA), Rec1(kName, sB)>>

\* what a name table yields: a mapping value normalized with the key as
\* fallback name, any other value wrapped under the key; wrap(k, v) is the
\* record made of a value that is no mapping
ClaimTable(fn, d, wrap(_, _)) ==
    SelectSeq([i \in 1..Len(d) |->
                  IF d[i][2].t = "d" THEN NormalizeBy(fn, d[i][2], PyStrV(d[i][1]))
                  ELSE wrap(d[i][1], d[i][2])],
              Truthy)

ClaimItems(fn, items) ==
    SelectSeq([i \in 1..Len(items) |-> NormalizeBy(fn, items[i], None)], Truthy)

ClaimDocument(fn, body, wrap(_, _)) ==
    IF body.t = "d" THEN
        IF DictGet(body.v, kItems, None).t = "l"
        THEN ClaimItems(fn, DictGet(body.v, kItems, None).v)
        ELSE ClaimTable(fn, body.v, wrap)
    ELSE <<>>

WrapVerbatim(k, v) == Rec2(kName, PyStrV(k), kValue, v)

WrapNormalized(k, v) ==
    IF k = <<>> THEN None
    ELSE Rec2(kName, PyStrV(k), kValue, IF v.t = "None" THEN sEmpty ELSE v)

\* C8 as stated: in a name table every value that is no mapping becomes the
\* record {name: key, value: value}
C8_TableWrapsVerbatim ==
    (parsed.fn # "none" /\ text.shape \in {"items", "table", "scalar"}) =>
        parsed.doc = ClaimDocument(parsed.fn, text.body, WrapVerbatim)

\* C8 as amended: a top-level mapping without a list under "items" is a name
\* table: a mapping value is normalized with the key as fallback name, any
\* other value becomes {name: key, value: value} with a null value stored as
\* "" and with no record at all for the empty key; with a list under "items"
\* only the normalized elements of that list are returned; a top-level value
\* that is neither list nor mapping gives no record
C8_NormalizeDocument ==
    (parsed.fn # "none" /\ text.shape \in {"items", "table", "scalar"}) =>
        parsed.doc = ClaimDocument(parsed.fn, text.body, WrapNormalized)

C8_Witness ==
    /\ parsed.fn # "none"
    /\ text.shape = "table"
    /\ text.body.v = << <<(<<"A">>), Rec1(kDesc, PyStrV(<<"d">>))>>, <<(<<"B">>), None>> >>
    /\ parsed.doc = << Rec2(kDesc, PyStrV(<<"d">>), kName, sA), Rec2(kName, sB, kValue, sEmpty) >>

----------------------------------------------------------------------------
(* The table editor: schema, list box, handlers *)

\* SCHEMAS: the keys of the fields, in order, their types and defaults
FieldKeys == <<kName, kDesc, kSpeed, kSize, kDarkvision, kLanguages, kTraits>>

FieldType(k) ==
    CASE k \in {kDesc, kTraits} -> "text"
      [] k \in {kSpeed, kDarkvision} -> "int"
      [] k = kSize -> "enum"
      [] OTHER -> "str"

\* f.get("default", "")
FieldDefault(k) ==
    CASE k = kSpeed -> PyInt(30)
      [] k = kSize -> PyStrV(sMedium)
      [] k = kDarkvision -> PyInt(0)
      [] OTHER -> sEmpty

FieldRequired(k) == k = kName

\* TabEditor.filtered_names
filtered_names(recs, query) ==
    LET qq == lower(strip(query))
        names == [i \in 1..Len(recs) |-> NameOf(recs[i])]
        Shown(n) == n # <<>> /\ (qq = <<>> \/ Contains(lower(n), qq))
    IN  SelectSeq(names, Shown)

\* the content of the list box after refresh_list
Listbox == filtered_names(records, q)

\* TabEditor.select_name after refresh_list: the position selected, 0 if the
\* name is filtered out
select_name(recs, query, nm) ==
    LET shown == filtered_names(recs, query)
    IN  IF \E i \in 1..Len(shown) : shown[i] = nm
        THEN CHOOSE i \in 1..Len(shown) : shown[i] = nm /\ \A j \in 1..(i - 1) : shown[j] # nm
        ELSE 0

Op(name, arg, outcome) ==
    [name |-> name, arg |-> arg, outcome |-> outcome, start |-> <<>>, steps |-> <<>>]

\* one more handler has run
Ran == nops < MaxOps /\ nops' = nops + 1

\* the search box: a key release refreshes the list, which drops the selection
Queries == {<<>>, <<"b">>}

SetQuery(query) ==
    /\ q' = query
    /\ sel' = 0
    /\ UNCHANGED <<records, index, op, nops, file, charVars, parseVars, normVars, pureVars>>

\* a click in the list box (on_select only fills the form)
Select(i) ==
    /\ i \in 1..Len(Listbox)
    /\ sel' = i
    /\ UNCHANGED <<records, index, q, op, nops, file, charVars, parseVars, normVars, pureVars>>

\* add_item: the record made of the name and the defaults of the schema
RECURSIVE AddDefaults(_, _)
AddDefaults(rec, i) ==
    IF i > Len(FieldKeys) THEN rec
    ELSE LET k == FieldKeys[i]
         IN  AddDefaults(IF HasKey(rec, k) THEN rec
                         ELSE DictSet(rec, k, IF FieldType(k) # "text" THEN FieldDefault(k)
                                              ELSE sEmpty),
                         i + 1)

\* add_item looking the name up in the index before trimming it
add_item_rawcheck(answer) ==
    LET name == strip(answer.v)
        rec == PyDict(AddDefaults(<< <<kName, PyStrV(name)>> >>, 1))
        recs == Append(records, rec)
    IN  /\ Ran
        /\ IF ~Truthy(answer) \/ name = <<>> THEN
                /\ op' = Op("add_item", answer, "cancelled")
                /\ UNCHANGED <<records, index, q, sel, file, charVars, parseVars, normVars, pureVars>>
            ELSE IF answer.v \in DOMAIN index THEN
                /\ op' = Op("add_item", answer, "exists")
                /\ UNCHANGED <<records, index, q, sel, file, charVars, parseVars, normVars, pureVars>>
            ELSE
                /\ Len(records) < MaxRecords
                /\ records' = recs
                /\ index' = rebuild_index(recs)
                /\ sel' = select_name(recs, q, name)
                /\ op' = Op("add_item", answer, "done")
                /\ UNCHANGED <<q, file, charVars, parseVars, normVars, pureVars>>

\* TabEditor.add_item; answer is what the dialog returned, None when cancelled
AddAnswers == {None, sA, PyStrV(<<" ", "B", " ">>), PyStrV(<<" ">>)}

add_item(answer) ==
    LET name == strip(answer.v)
        rec == PyDict(AddDefaults(<< <<kName, PyStrV(name)>> >>, 1))
        recs == Append(records, rec)
    IN  /\ Ran
        /\ IF ~Truthy(answer) \/ name = <<>> THEN
                /\ op' = Op("add_item", answer, "cancelled")
                /\ UNCHANGED <<records, index, q, sel, file, charVars, parseVars, normVars, pureVars>>
            ELSE IF name \in DOMAIN index THEN
                /\ op' = Op("add_item", answer, "exists")
                /\ UNCHANGED <<records, index, q, sel, file, charVars, parseVars, normVars, pureVars>>
            ELSE
                /\ Len(records) < MaxRecords
                /\ records' = recs
                /\ index' = rebuild_index(recs)
                /\ sel' = select_name(recs, q, name)
                /\ op' = Op("add_item", answer, "done")
                /\ UNCHANGED <<q, file, charVars, parseVars, normVars, pureVars>>

\* "{} (fuzhi{})".format(base, i); "fu", "zhi" stand for U+590D U+5236
CopyName(base, i) == base \o <<" ", "(", "fu", "zhi">> \o IntStr(i) \o <<")">>

RECURSIVE CopyLoop(_, _, _)
CopyLoop(base, i, idx) ==
    IF CopyName(base, i) \in DOMAIN idx THEN CopyLoop(base, i + 1, idx)
    ELSE CopyName(base, i)

\* TabEditor.dup_item
dup_item ==
    /\ Ran
    /\ sel # 0
    /\ Listbox[sel] \in DOMAIN index
    /\ Len(records) < MaxRecords
    /\ LET old == Listbox[sel]
           idx == index[old]
           new == CopyLoop(old, 2, index)
           rec == PyDict(DictSet(records[idx].v, kName, PyStrV(new)))
           recs == Append(records, rec)
       IN  /\ records' = recs
           /\ index' = rebuild_index(recs)
           /\ sel' = select_name(recs, q, new)
           /\ op' = Op("dup_item", old, "done")
    /\ UNCHANGED <<q, file, charVars, parseVars, normVars, pureVars>>

\* del records[idx]
DelAt(recs, idx) == SubSeq(recs, 1, idx - 1) \o SubSeq(recs, idx + 1, Len(recs))

\* del_item without the rebuild_index() after the deletion
del_item_stale(yes) ==
    /\ Ran
    /\ sel # 0
    /\ LET nm == Listbox[sel]
           recs == IF nm \in DOMAIN index THEN DelAt(records, index[nm]) ELSE records
       IN  IF ~yes THEN
               /\ op' = Op("del_item", nm, "cancelled")
               /\ UNCHANGED <<records, index, sel>>
           ELSE
               /\ records' = recs
               /\ index' = index
               /\ sel' = 0
               /\ op' = Op("del_item", nm, "done")
    /\ UNCHANGED <<q, file, charVars, parseVars, normVars, pureVars>>

\* TabEditor.del_item; yes is the answer to the confirmation
del_item(yes) ==
    /\ Ran
    /\ sel # 0
    /\ LET nm == Listbox[sel]
           recs == IF nm \in DOMAIN index THEN DelAt(records, index[nm]) ELSE records
       IN  IF ~yes THEN
               /\ op' = Op("del_item", nm, "cancelled")
               /\ UNCHANGED <<records, index, sel>>
           ELSE
               /\ records' = recs
               /\ index' = rebuild_index(recs)
               /\ sel' = 0
               /\ op' = Op("del_item", nm, "done")
    /\ UNCHANGED <<q, file, charVars, parseVars, normVars, pureVars>>

\* what the widgets of the form hold when "save" is clicked: one value per
\* field, an integer for the spin boxes
Form(name, desc) ==
    << <<kName, PyStrV(name)>>, <<kDesc, PyStrV(desc)>>, <<kSpeed, PyInt(30)>>,
       <<kSize, PyStrV(sMedium)>>, <<kDarkvision, PyInt(0)>>, <<kLanguages, sEmpty>>,
       <<kTraits, sEmpty>> >>

FormInputs ==
    {Form(n, d) : n \in {<<"A">>, <<" ", "B">>, <<>>, <<" ">>}, d \in {<<>>, <<" ", "d">>}}

\* TabEditor.collect_form: the text widgets are trimmed, the others are not
collect_form(form) ==
    PyDict(AsTuple([i \in 1..Len(FieldKeys) |->
               LET k == FieldKeys[i]
                   w == DictGet(form, k, sEmpty)
               IN  <<k, IF FieldType(k) = "text" THEN PyStrV(strip(w.v)) ELSE w>>]))

\* save_current_item with self.records[idx].update(rec) for
\* self.records[idx] = rec
save_current_item_merge(form) ==
    /\ Ran
    /\ sel # 0
    /\ Listbox[sel] \in DOMAIN index
    /\ LET old == Listbox[sel]
           idx == index[old]
           rec == collect_form(form)
           missing == \E i \in 1..Len(FieldKeys) :
                          /\ FieldRequired(FieldKeys[i])
                          /\ strip(PyStr(DictGet(rec.v, FieldKeys[i], sEmpty))) = <<>>
           new_name == strip(PyStr(DictGet(rec.v, kName, sEmpty)))
           recs == [records EXCEPT ![idx] = PyDict(UpdateAll(records[idx].v, rec.v))]
       IN  IF missing THEN
               /\ op' = Op("save_current_item", form, "required")
               /\ UNCHANGED <<records, index, sel>>
           ELSE IF new_name = <<>> THEN
               /\ op' = Op("save_current_item", form, "noname")
               /\ UNCHANGED <<records, index, sel>>
           ELSE IF new_name # old /\ new_name \in DOMAIN index THEN
               /\ op' = Op("save_current_item", form, "duplicate")
               /\ UNCHANGED <<records, index, sel>>
           ELSE
               /\ records' = recs
               /\ index' = rebuild_index(recs)
               /\ sel' = select_name(recs, q, new_name)
               /\ op' = [Op("save_current_item", form, "done") EXCEPT
                            !.start = idx, !.steps = <<records[idx]>>]
    /\ UNCHANGED <<q, file, charVars, parseVars, normVars, pureVars>>

\* TabEditor.save_current_item; op keeps the place and the record replaced
save_current_item(form) ==
    /\ Ran
    /\ sel # 0
    /\ Listbox[sel] \in DOMAIN index
    /\ LET old == Listbox[sel]
           idx == index[old]
           rec == collect_form(form)
           missing == \E i \in 1..Len(FieldKeys) :
                          /\ FieldRequired(FieldKeys[i])
                          /\ strip(PyStr(DictGet(rec.v, FieldKeys[i], sEmpty))) = <<>>
           new_name == strip(PyStr(DictGet(rec.v, kName, sEmpty)))
           recs == [records EXCEPT ![idx] = rec]
       IN  IF missing THEN
               /\ op' = Op("save_current_item", form, "required")
               /\ UNCHANGED <<records, index, sel>>
           ELSE IF new_name = <<>> THEN
               /\ op' = Op("save_current_item", form, "noname")
               /\ UNCHANGED <<records, index, sel>>
           ELSE IF new_name # old /\ new_name \in DOMAIN index THEN
               /\ op' = Op("save_current_item", form, "duplicate")
               /\ UNCHANGED <<records, index, sel>>
           ELSE
               /\ records' = recs
               /\ index' = rebuild_index(recs)
               /\ sel' = select_name(recs, q, new_name)
               /\ op' = [Op("save_current_item", form, "done") EXCEPT
                            !.start = idx, !.steps = <<records[idx]>>]
    /\ UNCHANGED <<q, file, charVars, parseVars, normVars, pureVars>>

\* TabEditor.save_file
save_file ==
    /\ Ran
    /\ \E w \in WriteOutcomes(file, write_json_list(records)) :
           /\ file' = w.file
           /\ op' = [Op("save_file", write_json_list(records),
                        IF w.raised THEN "failed" ELSE "done") EXCEPT !.start = file]
    /\ UNCHANGED <<records, index, q, sel, charVars, parseVars, normVars, pureVars>>

----------------------------------------------------------------------------
(* CSV import *)

\* f"{base} ({i})"
RenameName(base, i) == base \o <<" ", "(">> \o IntStr(i) \o <<")">>

RECURSIVE RenameLoop(_, _, _)
RenameLoop(base, i, idx) ==
    IF RenameName(base, i) \in DOMAIN idx THEN RenameLoop(base, i + 1, idx)
    ELSE RenameName(base, i)

\* rec = {k: r.get(k, "") for k in field_keys}; rec["name"] = nm
Candidate(row, nm) ==
    DictSet(AsTuple([i \in 1..Len(FieldKeys) |-> <<FieldKeys[i], DictGet(row, FieldKeys[i], sEmpty)>>]),
            kName, PyStrV(nm))

Counts0 == [added |-> 0, updated |-> 0, skipped |-> 0, renamed |-> 0]

\* import_csv with rebuild_index moved after the loop: a row does not see
\* the records of the rows before it
import_row_stale(policy, name_col, st, row) ==
    LET nm == strip(PyStr(DictGet(row, name_col, sEmpty)))
        rec == Candidate(row, nm)
        c == st.counts
    IN  IF nm = <<>> THEN st
        ELSE IF nm \in DOMAIN st.index THEN
            IF policy = "skip" THEN
                [st EXCEPT !.counts = [c EXCEPT !.skipped = @ + 1]]
            ELSE IF policy = "overwrite" THEN
                [st EXCEPT !.recs = [st.recs EXCEPT ![st.index[nm]] = PyDict(rec)],
                           !.counts = [c EXCEPT !.updated = @ + 1]]
            ELSE
                [st EXCEPT !.recs = Append(st.recs,
                                           PyDict(DictSet(rec, kName,
                                                          PyStrV(RenameLoop(nm, 2, st.index))))),
                           !.counts = [c EXCEPT !.renamed = @ + 1]]
        ELSE
            [st EXCEPT !.recs = Append(st.recs, PyDict(rec)),
                       !.counts = [c EXCEPT !.added = @ + 1]]

\* import_csv whose overwrite keeps the keys of the old record that the row
\* does not give (an update of the record instead of its replacement)
import_row_update(policy, name_col, st, row) ==
    LET nm == strip(PyStr(DictGet(row, name_col, sEmpty)))
        rec == Candidate(row, nm)
        c == st.counts
    IN  IF nm = <<>> THEN st
        ELSE IF nm \in DOMAIN st.index THEN
            IF policy = "skip" THEN
                [st EXCEPT !.counts = [c EXCEPT !.skipped = @ + 1]]
            ELSE IF policy = "overwrite" THEN
                LET old == st.recs[st.index[nm]]
                    recs == [st.recs EXCEPT ![st.index[nm]] = PyDict(UpdateAll(old.v, rec))]
                IN  [recs |-> recs, index |-> rebuild_index(recs),
                     counts |-> [c EXCEPT !.updated = @ + 1]]
            ELSE
                LET new_nm == RenameLoop(nm, 2, st.index)
                    recs == Append(st.recs, PyDict(DictSet(rec, kName, PyStrV(new_nm))))
                IN  [recs |-> recs, index |-> rebuild_index(recs),
                     counts |-> [c EXCEPT !.renamed = @ + 1]]
        ELSE
            LET recs == Append(st.recs, PyDict(rec))
            IN  [recs |-> recs, index |-> rebuild_index(recs),
                 counts |-> [c EXCEPT !.added = @ + 1]]

\* import_csv that counts a row without a name as skipped
import_row_countblank(policy, name_col, st, row) ==
    LET nm == strip(PyStr(DictGet(row, name_col, sEmpty)))
        rec == Candidate(row, nm)
        c == st.counts
    IN  IF nm = <<>> THEN [st EXCEPT !.counts = [c EXCEPT !.skipped = @ + 1]]
        ELSE IF nm \in DOMAIN st.index THEN
            IF policy = "skip" THEN
                [st EXCEPT !.counts = [c EXCEPT !.skipped = @ + 1]]
            ELSE IF policy = "overwrite" THEN
                LET recs == [st.recs EXCEPT ![st.index[nm]] = PyDict(rec)]
                IN  [recs |-> recs, index |-> rebuild_index(recs),
                     counts |-> [c EXCEPT !.updated = @ + 1]]
            ELSE
                LET new_nm == RenameLoop(nm, 2, st.index)
                    recs == Append(st.recs, PyDict(DictSet(rec, kName, PyStrV(new_nm))))
                IN  [recs |-> recs, index |-> rebuild_index(recs),
                     counts |-> [c EXCEPT !.renamed = @ + 1]]
        ELSE
            LET recs == Append(st.recs, PyDict(rec))
            IN  [recs |-> recs, index |-> rebuild_index(recs),
                 counts |-> [c EXCEPT !.added = @ + 1]]

\* the body of the loop of import_csv for one row; st holds the records, the
\* index and the counters
import_row(policy, name_col, st, row) ==
    LET nm == strip(PyStr(DictGet(row, name_col, sEmpty)))
        rec == Candidate(row, nm)
        c == st.counts
    IN  IF nm = <<>> THEN st
        ELSE IF nm \in DOMAIN st.index THEN
            IF policy = "skip" THEN
                [st EXCEPT !.counts = [c EXCEPT !.skipped = @ + 1]]
            ELSE IF policy = "overwrite" THEN
                LET recs == [st.recs EXCEPT ![st.index[nm]] = PyDict(rec)]
                IN  [recs |-> recs, index |-> rebuild_index(recs),
                     counts |-> [c EXCEPT !.updated = @ + 1]]
            ELSE IF policy = "rename" THEN
                LET new_nm == RenameLoop(nm, 2, st.index)
                    recs == Append(st.recs, PyDict(DictSet(rec, kName, PyStrV(new_nm))))
                IN  [recs |-> recs, index |-> rebuild_index(recs),
                     counts |-> [c EXCEPT !.renamed = @ + 1]]
            ELSE [st EXCEPT !.index = rebuild_index(st.recs)]
        ELSE
            LET recs == Append(st.recs, PyDict(rec))
            IN  [recs |-> recs, index |-> rebuild_index(recs),
                 counts |-> [c EXCEPT !.added = @ + 1]]

\* the loop of import_csv: the states after each row, in row order
RECURSIVE import_loop(_, _, _, _, _)
import_loop(policy, name_col, st, rows, steps) ==
    IF rows = <<>> THEN steps
    ELSE LET next == import_row(policy, name_col, st, Head(rows))
         IN  import_loop(policy, name_col, next, Tail(rows), Append(steps, next))

\* the headers of the rows, in order of first appearance
RECURSIVE HeadersOf(_, _)
HeadersOf(rows, acc) ==
    IF rows = <<>> THEN acc
    ELSE LET ks == AsTuple([i \in 1..Len(Head(rows)) |-> Head(rows)[i][1]])
             NewKey(k) == \A j \in 1..Len(acc) : acc[j] # k
         IN  HeadersOf(Tail(rows), acc \o SelectSeq(ks, NewKey))

\* the rows read_csv_rows can return: cells are trimmed, a row has a cell
\* that is not blank
CsvRow(k1, v1, k2, v2) == << <<k1, PyStrV(v1)>>, <<k2, PyStrV(v2)>> >>
NameRows == { CsvRow(kName, <<"A">>, kDesc, <<"c">>), CsvRow(kName, <<"B">>, kDesc, <<>>),
              CsvRow(kName, <<>>, kDesc, <<"c">>) }
TitleRows == { CsvRow(kTitle, <<"B">>, kDesc, <<"A">>) }
CsvInputs == (SeqsUpTo(NameRows, MaxRows) \ {<<>>}) \cup {<<r>> : r \in TitleRows}
             \cup {<<>>, << <<>> >>}
Policies == {"overwrite", "skip", "rename"}

\* TabEditor.import_csv; rows is what read_csv_rows returned, chosen the
\* column picked in the dialog when no header is "name", policy the answer
\* of ask_merge_strategy
import_csv(rows, chosen, policy) ==
    LET headers == HeadersOf(rows, <<>>)
        name_col == IF \E i \in 1..Len(headers) : headers[i] = kName THEN kName
                    ELSE strip(chosen)
        st0 == [recs |-> records, index |-> index, counts |-> Counts0]
        steps == import_loop(policy, name_col, st0, rows, <<>>)
        last == steps[Len(steps)]
        arg == [rows |-> rows, name_col |-> name_col, policy |-> policy]
    IN  /\ Ran
        /\ chosen \in (IF headers = <<>> \/ name_col = kName THEN {<<>>}
                        ELSE {headers[i] : i \in 1..Len(headers)})
        /\ IF rows = <<>> THEN
               /\ policy = "overwrite"
               /\ op' = Op("import_csv", arg, "nodata")
               /\ UNCHANGED <<records, index, sel>>
           ELSE IF name_col = <<>> THEN
               /\ policy = "overwrite"
               /\ op' = Op("import_csv", arg, "nocolumn")
               /\ UNCHANGED <<records, index, sel>>
           ELSE
               /\ Len(last.recs) <= MaxRecords
               /\ records' = last.recs
               /\ index' = last.index
               /\ sel' = 0
               /\ op' = [Op("import_csv", arg, "done") EXCEPT
                            !.start = st0, !.steps = steps]
        /\ UNCHANGED <<q, file, charVars, parseVars, normVars, pureVars>>

----------------------------------------------------------------------------
(* The editor as a state machine *)

\* contents of data/races.json when the editor starts: no file; a list with
\* a repeated name; a name table whose record has a key outside the schema
----------------------------------------------------------------------------
(* The character sheet (linkStart.py, class App) *)

\* what the name entry holds at the click on "save": what load_character or
\* an earlier save left there, or what the user typed since
TypedNames == {<<>>, <<" ">>, <<" ", "X", " ">>, <<"!">>}
TypedInputs == {[typed |-> FALSE, s |-> <<>>]} \cup {[typed |-> TRUE, s |-> n] : n \in TypedNames}

\* the five entries of self.model.update({...})
CharUpdate(f) ==
    AsTuple([i \in 1..Len(CharKeys) |-> <<CharKeys[i], PyStrV(strip(f[CharKeys[i]]))>>])

\* save_character with self.model.update(...) moved before the test of the
\* name
save_character_updatefirst(inp, yes) ==
    LET f == IF inp.typed THEN [fields EXCEPT ![kName] = inp.s] ELSE fields
        name == strip(f[kName])
        model1 == UpdateAll(model, CharUpdate(f))
        path == SafeName(name)
        new == FileOf(Dumps(PyDict(model1), 0))
    IN  /\ Ran
        /\ fields' = f
        /\ model' = model1
        /\ IF name = <<>> THEN
               /\ op' = Op("save_character", [name |-> f[kName], path |-> <<>>, new |-> Missing],
                           "noname")
               /\ UNCHANGED chars
           ELSE IF chars[path].exists /\ ~yes THEN
               /\ op' = [Op("save_character", [name |-> f[kName], path |-> path, new |-> new],
                            "cancelled") EXCEPT !.start = chars[path]]
               /\ UNCHANGED chars
           ELSE
               /\ \E w \in WriteOutcomes(chars[path], new) :
                      /\ chars' = [chars EXCEPT ![path] = w.file]
                      /\ op' = [Op("save_character",
                                   [name |-> f[kName], path |-> path, new |-> new],
                                   IF w.raised THEN "failed" ELSE "done")
                                   EXCEPT !.start = chars[path]]
        /\ UNCHANGED <<records, index, q, sel, file, parseVars, normVars, pureVars>>

\* App.save_character; yes is the answer to the overwrite question
save_character(inp, yes) ==
    LET f == IF inp.typed THEN [fields EXCEPT ![kName] = inp.s] ELSE fields
        name == strip(f[kName])
        model1 == UpdateAll(model, CharUpdate(f))
        path == SafeName(name)
        new == FileOf(Dumps(PyDict(model1), 0))
    IN  /\ Ran
        /\ fields' = f
        /\ IF name = <<>> THEN
               /\ op' = Op("save_character", [name |-> f[kName], path |-> <<>>, new |-> Missing],
                           "noname")
               /\ UNCHANGED <<model, chars>>
           ELSE IF chars[path].exists /\ ~yes THEN
               /\ model' = model1
               /\ op' = [Op("save_character", [name |-> f[kName], path |-> path, new |-> new],
                            "cancelled") EXCEPT !.start = chars[path]]
               /\ UNCHANGED chars
           ELSE
               /\ model' = model1
               /\ \E w \in WriteOutcomes(chars[path], new) :
                      /\ chars' = [chars EXCEPT ![path] = w.file]
                      /\ op' = [Op("save_character",
                                   [name |-> f[kName], path |-> path, new |-> new],
                                   IF w.raised THEN "failed" ELSE "done")
                                   EXCEPT !.start = chars[path]]
        /\ UNCHANGED <<records, index, q, sel, file, parseVars, normVars, pureVars>>

\* files the file dialog of load_character can point at, besides the saved
\* characters: the five keys, a mapping with another key, a list, no JSON
CharInputs ==
    { FileOf(Dumps(PyDict(<< <<kName, PyStrV(<<"X">>)>>, <<kPlayer, PyStrV(<<"Y">>)>>,
                             <<kRace, sEmpty>>, <<kClass, sEmpty>>,
                             <<kBackground, sEmpty>> >>), 0)),
      FileOf(Dumps(PyDict(<< <<kName, PyStrV(<<"X">>)>>, <<<<"h", "p">>, PyInt(5)>> >>), 0)),
      FileOf(Dumps(PyList(<<PyStrV(<<"X">>)>>), 0)),
      FileOf(<<NotJson>>) }

LoadSources == CharInputs \cup {chars[p] : p \in {x \in CharPaths : chars[x].exists}}

\* App.load_character; src is the file chosen, Missing when the dialog is
\* cancelled
load_character(src) ==
    /\ Ran
    /\ IF ~src.exists THEN
           /\ op' = Op("load_character", src, "cancelled")
           /\ UNCHANGED <<model, fields>>
       ELSE LET r == json_loads(src.data)
                m == IF r.val.t = "d" THEN r.val.v ELSE model
            IN  IF ~r.ok THEN
                    /\ op' = Op("load_character", src, "failed")
                    /\ UNCHANGED <<model, fields>>
                ELSE
                    /\ model' = m
                    /\ fields' = [k \in DOMAIN fields |-> PyStr(DictGet(m, k, sEmpty))]
                    /\ op' = Op("load_character", src, "done")
    /\ UNCHANGED <<records, index, q, sel, file, chars, parseVars, normVars, pureVars>>

----------------------------------------------------------------------------
(* The editor and the character sheet, started *)

InitFiles ==
    { Missing,
      FileOf(Dumps(PyList(<< Rec2(kName, sA, kDesc, PyStrV(<<"d">>)),
                              Rec2(kName, PyStrV(<<"A", " ">>), kDesc, PyStrV(<<"e">>)),
                              Rec1(kName, PyStrV(RenameName(<<"A">>, 2))) >>), 0)),
      FileOf(DumpsLine(Rec1(<<"B">>, Rec1(kX, PyInt(1))))) }

\* TabEditor.__init__: self.apply_records(read_json_list(self.file_path))
InitEditor ==
    \E f \in InitFiles :
        /\ records = apply_records(read_json_list(f))
        /\ index = rebuild_index(records)
        /\ q = <<>>
        /\ sel = 0
        /\ op = Op("init", f, "done")
        /\ nops = 0
        /\ file = f

Init ==
    /\ InitEditor
    /\ CharIdle
    /\ ParseIdle
    /\ NormIdleVars
    /\ PureIdle

Next ==
    \/ \E query \in Queries : SetQuery(query)
    \/ \E i \in 1..MaxRecords : Select(i)
    \/ \E answer \in AddAnswers : add_item(answer)
    \/ dup_item
    \/ \E yes \in BOOLEAN : del_item(yes)
    \/ \E form \in FormInputs : save_current_item(form)
    \/ \E rows \in CsvInputs, chosen \in {<<>>, kTitle, kDesc}, policy \in Policies :
           import_csv(rows, chosen, policy)
    \/ save_file
    \/ \E inp \in TypedInputs, yes \in BOOLEAN : save_character(inp, yes)
    \/ \E src \in LoadSources \cup {Missing} : load_character(src)

Spec == Init /\ [][Next]_vars

----------------------------------------------------------------------------
(* C1, C4, C5, C6, C10 *)

\* C1: after the start and after any handlers, no two records of
\* self.records have the same trimmed name and no record has an empty
\* trimmed name
C1_UniqueNonEmptyNames ==
    /\ UniqueNames(records)
    /\ \A i \in 1..Len(records) : NameOf(records[i]) # <<>>

\* a record saved from the form with blanks around its name, next to others
C1_Witness ==
    /\ op.name = "save_current_item" /\ op.outcome = "done"
    /\ Len(records) >= 2
    /\ \E i \in 1..Len(records) :
           PyStr(DictGet(records[i].v, kName, sEmpty)) # NameOf(records[i])

NamesIn(recs) == {NameOf(recs[i]) : i \in 1..Len(recs)}

\* the rows of the last import with the state before and after each
ImportDone(policy) ==
    op.name = "import_csv" /\ op.outcome = "done" /\ op.arg.policy = policy

StepBefore(k) == IF k = 1 THEN op.start ELSE op.steps[k - 1]
StepAfter(k) == op.steps[k]
RowName(k) == strip(PyStr(DictGet(op.arg.rows[k], op.arg.name_col, sEmpty)))
RowPresent(k) == RowName(k) # <<>> /\ RowName(k) \in NamesIn(StepBefore(k).recs)

OnlyCounts(before, after, field) ==
    \A f \in {"added", "updated", "skipped", "renamed"} :
        after.counts[f] = before.counts[f] + (IF f = field THEN 1 ELSE 0)

\* C4: with policy rename, a row whose name N is present appends its record
\* under "N (i)", i the smallest integer >= 2 for which no record of the set
\* at that row (records of earlier rows included) has that name; the records
\* already in the set, the one named N among them, are unchanged, and
\* renamed grows by 1
C4_RenameSmallestFreeSuffix ==
    ImportDone("rename") =>
        \A k \in 1..Len(op.steps) :
            RowPresent(k) =>
                LET before == StepBefore(k)
                    after == StepAfter(k)
                    n == Len(before.recs)
                    used == NamesIn(before.recs)
                IN  /\ Len(after.recs) = n + 1
                    /\ SubSeq(after.recs, 1, n) = before.recs
                    /\ \E i \in 2..(n + 2) :
                           /\ DictGet(after.recs[n + 1].v, kName, None)
                                  = PyStrV(RenameName(RowName(k), i))
                           /\ RenameName(RowName(k), i) \notin used
                           /\ \A j \in 2..(i - 1) : RenameName(RowName(k), j) \in used
                    /\ OnlyCounts(before, after, "renamed")

\* existing A, two rows A: A (2), then A (3)
C4_Witness ==
    /\ ImportDone("rename")
    /\ Len(op.start.recs) = 1 /\ NameOf(op.start.recs[1]) = <<"A">>
    /\ Len(records) = 3
    /\ NameOf(records[1]) = <<"A">> /\ records[1] = op.start.recs[1]
    /\ NameOf(records[2]) = RenameName(<<"A">>, 2)
    /\ NameOf(records[3]) = RenameName(<<"A">>, 3)
    /\ op.steps[2].counts.renamed = 2

\* the candidate record of a row: the keys of the schema, "" for a field the
\* row does not give, the trimmed name
ClaimCandidate(row, nm) ==
    PyDict(AsTuple([i \in 1..Len(FieldKeys) |->
               <<FieldKeys[i], IF FieldKeys[i] = kName THEN PyStrV(nm)
                               ELSE DictGet(row, FieldKeys[i], sEmpty)>>]))

\* C5: with policy overwrite, a row whose name is present replaces the record
\* at the place of the record of that name by the candidate record; updated
\* grows by 1, the number of records is unchanged and every other record
\* keeps its place and content
C5_OverwriteInPlace ==
    ImportDone("overwrite") =>
        \A k \in 1..Len(op.steps) :
            RowPresent(k) =>
                LET before == StepBefore(k)
                    after == StepAfter(k)
                    p == CHOOSE i \in 1..Len(before.recs) : NameOf(before.recs[i]) = RowName(k)
                IN  /\ Len(after.recs) = Len(before.recs)
                    /\ after.recs[p] = ClaimCandidate(op.arg.rows[k], RowName(k))
                    /\ \A i \in 1..Len(before.recs) : i # p => after.recs[i] = before.recs[i]
                    /\ OnlyCounts(before, after, "updated")

\* a record with a key outside the schema, or not in last place, overwritten
C5_Witness ==
    /\ ImportDone("overwrite")
    /\ \E k \in 1..Len(op.steps) :
           /\ RowPresent(k)
           /\ StepAfter(k).recs # StepBefore(k).recs
           /\ StepAfter(k).counts.updated = 1
           /\ Len(StepBefore(k).recs) >= 2
           /\ NameOf(StepBefore(k).recs[1]) = RowName(k)

\* C6: with policy skip, a row whose name is present changes no record and
\* adds 1 to skipped and to nothing else; a row without a name changes
\* nothing and counts nothing; every record of the set before the import is
\* still there, unchanged, at its place
C6_SkipKeepsRecords ==
    ImportDone("skip") =>
        /\ \A k \in 1..Len(op.steps) :
               /\ RowPresent(k) =>
                      /\ StepAfter(k).recs = StepBefore(k).recs
                      /\ OnlyCounts(StepBefore(k), StepAfter(k), "skipped")
               /\ RowName(k) = <<>> => StepAfter(k) = StepBefore(k)
        /\ Len(records) >= Len(op.start.recs)
        /\ SubSeq(records, 1, Len(op.start.recs)) = op.start.recs

\* a row of a present name and a row without a name in one import
C6_Witness ==
    /\ ImportDone("skip")
    /\ Len(op.steps) = 2
    /\ \E k \in 1..2 : RowPresent(k) /\ StepAfter(k).counts.skipped = 1
    /\ \E k \in 1..2 : RowName(k) = <<>>
    /\ records = op.start.recs
    /\ records # <<>>

\* a record set in canonical array form: mappings with trimmed non-empty
\* keys, no null value, non-empty and pairwise distinct trimmed names
Canonical(recs) ==
    /\ \A i \in 1..Len(recs) :
           /\ recs[i].t = "d"
           /\ \A e \in 1..Len(recs[i].v) :
                  /\ recs[i].v[e][1] # <<>>
                  /\ strip(recs[i].v[e][1]) = recs[i].v[e][1]
                  /\ recs[i].v[e][2].t # "None"
           /\ NameOf(recs[i]) # <<>>
    /\ UniqueNames(recs)

\* the text is what write_json_list writes for the list it was made from
WrittenList ==
    /\ text.shape = "list"
    /\ Canonical(text.body.v)
    /\ text.file = write_json_list(text.body.v)

\* C10: a record set in canonical array form, written by write_json_list and
\* loaded again by read_json_list and apply_records, gives the same records
\* in the same order
C10_RoundTrip ==
    (parsed.fn = "read_json_list" /\ WrittenList) => parsed.load = text.body.v

\* C10, for the names the loader takes as names: the same round trip when
\* every name is a truthy value (not 0, not False)
C10_RoundTripTruthyNames ==
    (/\ parsed.fn = "read_json_list" /\ WrittenList
     /\ \A i \in 1..Len(text.body.v) : Truthy(DictGet(text.body.v[i].v, kName, None)))
        => parsed.load = text.body.v

\* C10, in the editor: the file save_file writes loads to the records in
\* memory, and the records loaded at the start, saved and loaded again, are
\* the same
C10_SavedFileReloads ==
    /\ op.name = "save_file" => apply_records(read_json_list(op.arg)) = records
    /\ op.name = "init" =>
           apply_records(read_json_list(write_json_list(records))) = records

----------------------------------------------------------------------------
(* C11, C12, C13, C14 *)

\* C11: after a save, failed or not, the target file holds its whole
\* previous content or the whole new content, for the data file written by
\* save_file and for the character file written by save_character
C11_WriteIsAtomic ==
    /\ op.name = "save_file" => file \in {op.start, op.arg}
    /\ (op.name = "save_character" /\ op.outcome \in {"done", "failed"}) =>
           chars[op.arg.path] \in {op.start, op.arg.new}

\* C11, the part about the failure itself: a save that raised is reported
\* once (outcome "failed") and the other state of the window is as before
C11_FailureSurfacedOnce ==
    [][(nops' # nops /\ op'.name = "save_file" /\ op'.outcome = "failed")
           => (records' = records /\ index' = index /\ nops' = nops + 1)]_vars

CharKeySet == {CharKeys[i] : i \in 1..Len(CharKeys)}

\* C12: a file save_character has written is a JSON object with exactly the
\* keys name, player, race, class, background
C12_CharacterFileKeys ==
    (op.name = "save_character" /\ op.outcome = "done") =>
        LET r == json_loads(chars[op.arg.path].data)
        IN  r.ok /\ r.val.t = "d" /\ Keys(r.val.v) = CharKeySet

\* C12, without load_character of a mapping with other keys: the keys of
\* the file are the five keys as long as self.model has only them
C12_FileKeysAreModelKeys ==
    (op.name = "save_character" /\ op.outcome = "done") =>
        LET r == json_loads(chars[op.arg.path].data)
        IN  r.ok /\ r.val.t = "d" /\ Keys(r.val.v) = Keys(model)
            /\ CharKeySet \subseteq Keys(model)

FormName(form) == DictGet(form, kName, sEmpty).v

\* C13: save_current_item with an empty or blank name in the form leaves
\* self.records and self.index as they were; save_character with an empty
\* or blank name writes no file and leaves self.model as it was
C13_ValidationAbortsWhole ==
    [][nops' # nops =>
          /\ (op'.name = "save_current_item" /\ strip(FormName(op'.arg)) = <<>>)
                 => (records' = records /\ index' = index)
          /\ (op'.name = "save_character" /\ strip(op'.arg.name) = <<>>)
                 => (chars' = chars /\ model' = model)]_vars

\* a blank name in the form of a selected record, the set not empty
C13_Witness ==
    /\ op.name = "save_current_item"
    /\ op.outcome = "required"
    /\ FormName(op.arg) = <<" ">>
    /\ records # <<>>

\* C14: add_item with a name whose trimmed form is in the set, and
\* save_current_item with a name that is the name of another record, leave
\* self.records and self.index as they were
C14_CollisionAbortsWhole ==
    [][nops' # nops =>
          /\ (/\ op'.name = "add_item" /\ Truthy(op'.arg)
              /\ strip(op'.arg.v) \in NamesIn(records))
                 => (records' = records /\ index' = index)
          /\ (/\ op'.name = "save_current_item" /\ sel # 0
              /\ strip(FormName(op'.arg)) # Listbox[sel]
              /\ strip(FormName(op'.arg)) \in NamesIn(records))
                 => (records' = records /\ index' = index)]_vars

\* a name with blanks around it that is, trimmed, the name of a record
C14_Witness ==
    /\ op.name = "add_item"
    /\ op.outcome = "exists"
    /\ strip(op.arg.v) # op.arg.v
    /\ strip(op.arg.v) \in NamesIn(records)

----------------------------------------------------------------------------
(* db_editor.py: read_csv_rows *)

MaxCsvRows == 3

\* U+FEFF, one character that str.strip() does not take for a blank
Bom == "bom"

RECURSIVE lstrip_bom(_)
lstrip_bom(s) == IF s # <<>> /\ Head(s) = Bom THEN lstrip_bom(Tail(s)) ELSE s

\* any((c or "").strip() for c in r)
AnyCell(r) == \E i \in 1..Len(r) : strip(r[i]) # <<>>

\* the text of the file is nothing but blanks: no row has a delimiter or a
\* character that is not a blank
CsvTextBlank(rows) == \A i \in 1..Len(rows) : Len(rows[i]) <= 1 /\ ~AnyCell(rows[i])

\* for i, k in enumerate(headers): ... d[k] = r[i] if i < len(r) else ""
RECURSIVE csv_row_dict(_, _, _, _)
csv_row_dict(headers, r, i, d) ==
    IF i > Len(headers) THEN d
    ELSE IF headers[i] = <<>> THEN csv_row_dict(headers, r, i + 1, d)
    ELSE csv_row_dict(headers, r, i + 1,
             DictSet(d, headers[i], PyStrV(IF i <= Len(r) THEN r[i] ELSE <<>>)))

\* the loop over data_rows with every row appended, the blank ones too
RECURSIVE csv_rows_out_keepblank(_, _, _)
csv_rows_out_keepblank(headers, data_rows, out) ==
    IF data_rows = <<>> THEN out
    ELSE csv_rows_out_keepblank(headers, Tail(data_rows),
             Append(out, csv_row_dict(headers, Head(data_rows), 1, <<>>)))

\* for r in data_rows: if not any(...): continue; ...; out.append(d)
RECURSIVE csv_rows_out(_, _, _)
csv_rows_out(headers, data_rows, out) ==
    IF data_rows = <<>> THEN out
    ELSE IF ~AnyCell(Head(data_rows)) THEN csv_rows_out(headers, Tail(data_rows), out)
    ELSE csv_rows_out(headers, Tail(data_rows),
             Append(out, csv_row_dict(headers, Head(data_rows), 1, <<>>)))

\* rows[2:] if len(rows) >= 2 and any(... for c in rows[1]) else rows[1:],
\* with the second row taken for a description only when a row follows it
csv_data_rows_needsthird(rows) ==
    IF Len(rows) >= 3 /\ AnyCell(rows[2]) THEN SubSeq(rows, 3, Len(rows)) ELSE Tail(rows)

csv_data_rows(rows) ==
    IF Len(rows) >= 2 /\ AnyCell(rows[2]) THEN SubSeq(rows, 3, Len(rows)) ELSE Tail(rows)

\* read_csv_rows; f.rows are the rows csv.reader yields for the file
read_csv_rows(f) ==
    IF ~f.exists THEN <<>>
    ELSE IF CsvTextBlank(f.rows) THEN <<>>
    ELSE LET rows == AsTuple([i \in 1..Len(f.rows) |->
                         AsTuple([j \in 1..Len(f.rows[i]) |-> strip(f.rows[i][j])])])
         IN  IF rows = <<>> THEN <<>>
             ELSE LET headers == AsTuple([j \in 1..Len(rows[1]) |->
                                     strip(lstrip_bom(rows[1][j]))])
                  IN  csv_rows_out(headers, csv_data_rows(rows), <<>>)

CsvHeaderRows == { <<>>, << <<"n">> >>, << <<Bom, " ", "n">>, <<" ", "d", " ">> >>,
                   << <<"n">>, <<>> >>, << <<"n">>, <<"n">> >>, << <<" ">>, <<"d">> >> }
CsvDataRows == { <<>>, << <<" ">> >>, << <<"a">> >>, << <<"a">>, <<" ", "b", " ">> >>,
                 << <<" ">>, <<"b">> >>, << <<"a">>, <<"b">>, <<"c">> >>,
                 << <<" ">>, <<>> >> }
CsvFiles == {[exists |-> FALSE, rows |-> <<>>]}
            \cup {[exists |-> TRUE, rows |-> <<h>> \o d] :
                      h \in CsvHeaderRows, d \in SeqsUpTo(CsvDataRows, MaxCsvRows)}

CallReadCsvRows ==
    /\ csvOut' = [fn |-> "read_csv_rows", out |-> read_csv_rows(csvIn)]
    /\ UNCHANGED <<csvIn, decIn, decOut, editorVars, charVars, parseVars, normVars>>

InitCsv ==
    /\ csvIn \in CsvFiles
    /\ csvOut = CsvIdle
    /\ decIn = DecNone
    /\ decOut = DecIdle
    /\ EditorIdle
    /\ CharIdle
    /\ ParseIdle
    /\ NormIdleVars

NextCsv == CallReadCsvRows

SpecCsv == InitCsv /\ [][NextCsv]_vars

----------------------------------------------------------------------------
(* C15, C16 *)

CellBlank(c) == \A i \in 1..Len(c) : IsSpace(c[i])
ClaimRowBlank(r) == \A i \in 1..Len(r) : CellBlank(r[i])

\* the row the data starts at, counted from 1
ClaimDataStart(rows) == IF Len(rows) >= 2 /\ ~ClaimRowBlank(rows[2]) THEN 3 ELSE 2

\* the positions of the data rows that yield a mapping
ClaimKept(rows) == {i \in ClaimDataStart(rows)..Len(rows) : ~ClaimRowBlank(rows[i])}

\* the k-th smallest member of S
Nth(S, k) == CHOOSE i \in S : Cardinality({j \in S : j < i}) = k - 1

ClaimHeader(rows, i) == strip(lstrip_bom(strip(rows[1][i])))
ClaimCell(r, i) == IF i <= Len(r) THEN strip(r[i]) ELSE <<>>

\* no column after i has the header of column i
LastOfHeader(rows, i) ==
    \A j \in (i + 1)..Len(rows[1]) : ClaimHeader(rows, j) # ClaimHeader(rows, i)

CsvRead == csvOut.fn = "read_csv_rows" /\ csvIn.exists /\ csvIn.rows # <<>>

\* C15: the first row is the header; a second row with a cell that is not
\* blank is a description row and no mapping comes from it, also when no row
\* follows it, and the data starts at row 3; a second row that is all blank
\* is no description row and the data starts at row 2.  So the mappings read
\* are, in order, those of the rows from the data start on that are not all
\* blank.
C15_DescriptionRowRule ==
    CsvRead =>
        LET rows == csvIn.rows
            kept == ClaimKept(rows)
        IN  /\ Len(csvOut.out) = Cardinality(kept)
            /\ \A k \in 1..Len(csvOut.out) : \A i \in 1..Len(rows[1]) :
                   (ClaimHeader(rows, i) # <<>> /\ LastOfHeader(rows, i))
                   => DictGet(csvOut.out[k], ClaimHeader(rows, i), None)
                          = PyStrV(ClaimCell(rows[Nth(kept, k)], i))

\* a description row followed by one data row, and a description row that is
\* the last row of the file
C15_Witness ==
    /\ CsvRead
    /\ Len(csvIn.rows) = 3
    /\ ~ClaimRowBlank(csvIn.rows[2])
    /\ ~ClaimRowBlank(csvIn.rows[3])
    /\ Len(csvOut.out) = 1
    /\ csvOut.out[1] # <<>>
    /\ read_csv_rows([csvIn EXCEPT !.rows = SubSeq(csvIn.rows, 1, 2)]) = <<>>

\* C16 as stated: every data row that is all blank is skipped; every other
\* data row yields, in order, one mapping from each header to the cell at
\* the same column, "" for a cell the row lacks, the cells beyond the
\* headers dropped.
C16_EachHeaderToItsCell ==
    CsvRead =>
        LET rows == csvIn.rows
            kept == ClaimKept(rows)
        IN  /\ Len(csvOut.out) = Cardinality(kept)
            /\ \A k \in 1..Len(csvOut.out) :
                   /\ Keys(csvOut.out[k]) = {ClaimHeader(rows, i) : i \in 1..Len(rows[1])}
                   /\ \A i \in 1..Len(rows[1]) :
                          DictGet(csvOut.out[k], ClaimHeader(rows, i), None)
                              = PyStrV(ClaimCell(rows[Nth(kept, k)], i))

\* the headers that are not empty, each once, in the order of their first
\* column
RECURSIVE ClaimKeyOrder(_, _, _)
ClaimKeyOrder(rows, i, acc) ==
    IF i > Len(rows[1]) THEN acc
    ELSE LET h == ClaimHeader(rows, i)
         IN  ClaimKeyOrder(rows, i + 1,
                 IF h = <<>> \/ (\E j \in 1..Len(acc) : acc[j] = h) THEN acc
                 ELSE Append(acc, h))

\* C16, amended: every data row that is all blank is skipped; every other
\* data row yields, in order, one mapping whose keys are the headers that
\* are not empty, in the order of their first column; a header maps to the
\* cell at the column of its last occurrence, "" for a cell the row lacks;
\* the cells under an empty header and those beyond the headers are dropped.
C16_NonEmptyHeadersLastColumn ==
    CsvRead =>
        LET rows == csvIn.rows
            kept == ClaimKept(rows)
            order == ClaimKeyOrder(rows, 1, <<>>)
        IN  /\ Len(csvOut.out) = Cardinality(kept)
            /\ \A k \in 1..Len(csvOut.out) :
                   /\ Len(csvOut.out[k]) = Len(order)
                   /\ \A p \in 1..Len(order) : csvOut.out[k][p][1] = order[p]
                   /\ \A i \in 1..Len(rows[1]) :
                          (ClaimHeader(rows, i) # <<>> /\ LastOfHeader(rows, i))
                          => DictGet(csvOut.out[k], ClaimHeader(rows, i), None)
                                 = PyStrV(ClaimCell(rows[Nth(kept, k)], i))

\* a blank data row skipped, a row shorter than the headers and a row longer
\* than the headers both read, under a header row with an empty header
C16_Witness ==
    /\ CsvRead
    /\ \E i \in 1..Len(csvIn.rows[1]) : ClaimHeader(csvIn.rows, i) = <<>>
    /\ \E i \in 1..Len(csvIn.rows[1]) : ClaimHeader(csvIn.rows, i) # <<>>
    /\ \E i \in ClaimDataStart(csvIn.rows)..Len(csvIn.rows) : ClaimRowBlank(csvIn.rows[i])
    /\ \E i \in ClaimKept(csvIn.rows) : Len(csvIn.rows[i]) < Len(csvIn.rows[1])
    /\ \E i \in ClaimKept(csvIn.rows) : Len(csvIn.rows[i]) > Len(csvIn.rows[1])
    /\ Len(csvOut.out) = 2

----------------------------------------------------------------------------
(* try_read_text (db_editor.py) and _try_read_text (linkStart.py) on the
   bytes of a file *)

MaxUnits == 3

\* The bytes of a file, in units that every codec here decodes by
\* themselves: "A" is 41, " " is 20, "e2" is C3 A9 (U+00E9 in UTF-8), "nb"
\* is C2 A0 (U+00A0 in UTF-8), "gb" is D6 D0 (U+4E2D in GBK, no UTF-8),
\* "ff" is FF (no UTF-8, GBK or Big5), "bom" is EF BB BF and stands at the
\* head of a file whose other bytes are "A" and " ".
PlainUnits == {"A", " ", "e2", "nb", "gb", "ff"}
AsciiUnits == {"A", " "}

\* the characters a codec gives for one unit, none when it rejects the unit
Utf8Unit(u) ==
    CASE u \in AsciiUnits -> <<u>>
      [] u = "e2" -> <<"U+00E9">>
      [] u = "nb" -> <<"nbsp">>
      [] u = "bom" -> <<Bom>>
      [] OTHER -> <<>>

GbkUnit(u) ==
    CASE u \in AsciiUnits -> <<u>>
      [] u = "e2" -> <<"U+8305">>
      [] u = "nb" -> <<"U+807D">>
      [] u = "gb" -> <<"U+4E2D">>
      [] OTHER -> <<>>

Big5Unit(u) ==
    CASE u \in AsciiUnits -> <<u>>
      [] u = "e2" -> <<"U+77C7">>
      [] u = "gb" -> <<"U+7B22">>
      [] OTHER -> <<>>

Latin1Unit(u) ==
    CASE u \in AsciiUnits -> <<u>>
      [] u = "e2" -> <<"U+00C3", "U+00A9">>
      [] u = "nb" -> <<"U+00C2", "nbsp">>
      [] u = "gb" -> <<"U+00D6", "U+00D0">>
      [] u = "ff" -> <<"U+00FF">>
      [] u = "bom" -> <<"U+00EF", "U+00BB", "U+00BF">>

DecFail == [ok |-> FALSE, text |-> <<>>]
DecOk(t) == [ok |-> TRUE, text |-> t]

\* strict decoding unit by unit: one unit that fails fails the whole read
RECURSIVE DecodeUnits(_, _, _)
DecodeUnits(codec, bytes, acc) ==
    IF bytes = <<>> THEN DecOk(acc)
    ELSE LET c == CASE codec = "utf-8" -> Utf8Unit(Head(bytes))
                    [] codec = "gbk" -> GbkUnit(Head(bytes))
                    [] codec = "big5" -> Big5Unit(Head(bytes))
                    [] codec = "latin1" -> Latin1Unit(Head(bytes))
         IN  IF c = <<>> THEN DecFail
             ELSE DecodeUnits(codec, Tail(bytes), acc \o c)

\* EF BB BF under a double-byte codec: EF BB is one character, BF takes the
\* byte after it for its second byte, which 41 can be and 20 cannot
DoubleByteBom(codec, bytes) ==
    IF Len(bytes) >= 2 /\ bytes[2] = "A"
    THEN LET r == DecodeUnits(codec, SubSeq(bytes, 3, Len(bytes)), <<>>)
         IN  IF r.ok
             THEN DecOk((IF codec = "gbk" THEN <<"U+951F", "U+7DFC">>
                         ELSE <<"U+56AA", "U+6FA4">>) \o r.text)
             ELSE DecFail
    ELSE DecFail

\* open(path, "r", encoding=enc) and f.read(); ok = FALSE when open or read
\* raises (no file, no such codec, bytes the codec rejects)
Decode(f, enc) ==
    IF ~f.exists THEN DecFail
    ELSE CASE enc = "utf-8-sig" ->
                  IF f.bytes # <<>> /\ Head(f.bytes) = "bom"
                  THEN DecodeUnits("utf-8", Tail(f.bytes), <<>>)
                  ELSE DecodeUnits("utf-8", f.bytes, <<>>)
           [] enc = "utf-8" -> DecodeUnits("utf-8", f.bytes, <<>>)
           [] enc \in {"gbk", "big5"} ->
                  IF f.bytes # <<>> /\ Head(f.bytes) = "bom"
                  THEN DoubleByteBom(enc, f.bytes)
                  ELSE DecodeUnits(enc, f.bytes, <<>>)
           [] enc = "ansi" ->
                  IF f.ansi = "none" THEN DecFail
                  ELSE IF f.ansi = "gbk" /\ f.bytes # <<>> /\ Head(f.bytes) = "bom"
                  THEN DoubleByteBom("gbk", f.bytes)
                  ELSE DecodeUnits(f.ansi, f.bytes, <<>>)
           [] enc \in {"iso-8859-1", "latin1"} -> DecodeUnits("latin1", f.bytes, <<>>)

Encodings == <<"utf-8-sig", "utf-8", "gbk", "big5", "ansi", "iso-8859-1", "latin1">>

\* the loop of try_read_text with `if t:` for `if t and t.strip():`
RECURSIVE db_decode_loop_anytext(_, _)
db_decode_loop_anytext(f, i) ==
    IF i > Len(Encodings) THEN None
    ELSE LET t == Decode(f, Encodings[i])
         IN  IF t.ok /\ t.text # <<>> THEN PyStrV(t.text)
             ELSE db_decode_loop_anytext(f, i + 1)

\* db_editor.py: for enc in [...]: try: ...; if t and t.strip(): return t;
\* except Exception: pass
RECURSIVE db_decode_loop(_, _)
db_decode_loop(f, i) ==
    IF i > Len(Encodings) THEN None
    ELSE LET t == Decode(f, Encodings[i])
         IN  IF t.ok /\ t.text # <<>> /\ strip(t.text) # <<>> THEN PyStrV(t.text)
             ELSE db_decode_loop(f, i + 1)

db_try_read_text(f) == db_decode_loop(f, 1)

\* linkStart.py: the same loop, with `continue` in the except clause
RECURSIVE ls_decode_loop(_, _)
ls_decode_loop(f, i) ==
    IF i > Len(Encodings) THEN None
    ELSE LET t == Decode(f, Encodings[i])
         IN  IF ~t.ok THEN ls_decode_loop(f, i + 1)
             ELSE IF t.text # <<>> /\ strip(t.text) # <<>> THEN PyStrV(t.text)
             ELSE ls_decode_loop(f, i + 1)

ls_try_read_text(f) == ls_decode_loop(f, 1)

\* what the name "ansi" is on the machine: no codec (LookupError), the
\* code page 936, or a single-byte code page
AnsiCodecs == {"none", "gbk", "latin1"}

DecFiles ==
    {[exists |-> TRUE, bytes |-> b, ansi |-> a] :
         b \in SeqsUpTo(PlainUnits, MaxUnits), a \in AnsiCodecs}
    \cup {[exists |-> TRUE, bytes |-> <<"bom">> \o b, ansi |-> a] :
              b \in SeqsUpTo(AsciiUnits, MaxUnits - 1), a \in AnsiCodecs}
    \cup {[exists |-> FALSE, bytes |-> <<>>, ansi |-> a] : a \in AnsiCodecs}

CallDbTryReadText ==
    /\ decOut' = [fn |-> "try_read_text", out |-> db_try_read_text(decIn)]
    /\ UNCHANGED <<decIn, csvIn, csvOut, editorVars, charVars, parseVars, normVars>>

CallLsTryReadText ==
    /\ decOut' = [fn |-> "_try_read_text", out |-> ls_try_read_text(decIn)]
    /\ UNCHANGED <<decIn, csvIn, csvOut, editorVars, charVars, parseVars, normVars>>

InitDecode ==
    /\ decIn \in DecFiles
    /\ decOut = DecIdle
    /\ csvIn = CsvNone
    /\ csvOut = CsvIdle
    /\ EditorIdle
    /\ CharIdle
    /\ ParseIdle
    /\ NormIdleVars

NextDecode == CallDbTryReadText \/ CallLsTryReadText

SpecDecode == InitDecode /\ [][NextDecode]_vars

----------------------------------------------------------------------------
(* C17 *)

\* encoding number i reads the file and what it reads is not all blanks
ClaimUsable(i) ==
    LET t == Decode(decIn, Encodings[i])
    IN  t.ok /\ \E j \in 1..Len(t.text) : ~IsSpace(t.text[j])

ClaimOrder ==
    Encodings = <<"utf-8-sig", "utf-8", "gbk", "big5", "ansi", "iso-8859-1", "latin1">>

\* C17: the encodings are tried in the order utf-8-sig, utf-8, gbk, big5,
\* ansi, iso-8859-1, latin1; the result is the text of the first one whose
\* decode succeeds with content that is not all whitespace, and null
\* exactly when the file does not exist or no encoding is such; both
\* functions do so, and end with a result in every case.
C17_FirstUsableEncoding ==
    decOut.fn # "none" =>
        /\ ClaimOrder
        /\ IF decIn.exists /\ \E i \in 1..Len(Encodings) : ClaimUsable(i)
           THEN LET first == CHOOSE i \in 1..Len(Encodings) :
                                 ClaimUsable(i) /\ \A j \in 1..(i - 1) : ~ClaimUsable(j)
                IN  decOut.out = PyStrV(Decode(decIn, Encodings[first]).text)
           ELSE decOut.out = None

\* a file of GBK bytes with a blank in front: the two UTF-8 codecs reject
\* it and the text is that of gbk, the blank kept
C17_Witness ==
    /\ decOut.fn = "_try_read_text"
    /\ decIn.bytes = <<" ", "gb">>
    /\ decOut.out = PyStrV(<<" ", "U+4E2D">>)

\* a file of U+00A0 in UTF-8: both UTF-8 codecs read only blanks and the
\* text is that of gbk
C17_WitnessBlankSkipped ==
    /\ decOut.fn = "try_read_text"
    /\ decIn.bytes = <<"nb">>
    /\ decOut.out = PyStrV(<<"U+807D">>)

\* a file of blanks: every encoding reads it, none is usable, the result is
\* null
C17_WitnessNull ==
    /\ decOut.fn = "try_read_text"
    /\ decIn.exists
    /\ decIn.bytes = <<" ", " ">>
    /\ decOut.out = None

----------------------------------------------------------------------------
(* C18 *)

\* C18: the two loaders agree: for every file, read_json_list followed by
\* the de-duplication of apply_records yields the same sequence of records
\* (names, fields, order) as read_json_records, also for JSON-Lines with
\* repeated or empty names and for mappings whose name key carries blanks
C18_LoadersAgree ==
    /\ parsed.fn = "read_json_list" => parsed.load = read_json_records(text.file)
    /\ parsed.fn = "read_json_records"
           => parsed.load = apply_records(read_json_list(text.file))

\* the same for files in the form save_file writes: a list of mappings with
\* a string under "name" and no other name key
C18_LoadersAgreeOnSavedForm ==
    (text.shape = "list" /\ Canonical(text.body.v) /\ parsed.fn = "read_json_list")
        => parsed.load = read_json_records(text.file)

----------------------------------------------------------------------------
(* C19 *)

\* idx is the map from the trimmed name of each record of recs to the place
\* of that record, and has no other key
IndexExact(recs, idx) ==
    /\ DOMAIN idx = NamesIn(recs)
    /\ \A i \in 1..Len(recs) : idx[NameOf(recs[i])] = i

\* C19: after the initial load and after every completed add_item,
\* dup_item, del_item, save_current_item and import_csv, self.index is
\* exactly the map from each record's trimmed name to that record's place
\* in self.records; within import_csv the same holds before each row
C19_IndexConsistent ==
    /\ IndexExact(records, index)
    /\ (op.name = "import_csv" /\ op.outcome = "done")
           => \A k \in 1..Len(op.steps) :
                  IndexExact(StepBefore(k).recs, StepBefore(k).index)

\* an import whose first row changed the records before the second row was
\* processed, after a deletion that moved a record to another place
C19_Witness ==
    /\ op.name = "import_csv"
    /\ op.outcome = "done"
    /\ Len(op.steps) >= 2
    /\ StepBefore(2).recs # op.start.recs
    /\ Len(records) >= 2
    /\ \E f \in InitFiles :
           LET r0 == apply_records(read_json_list(f))
           IN  \E i \in 1..Len(r0) : \E j \in 1..Len(op.start.recs) :
                   i # j /\ r0[i] = op.start.recs[j]

----------------------------------------------------------------------------
(* C20 *)

SchemaKeys == {FieldKeys[i] : i \in 1..Len(FieldKeys)}

\* the value the form gives for field k: the text of a text box trimmed,
\* the value of any other widget as it is
FormValue(form, k) ==
    LET w == DictGet(form, k, sEmpty)
    IN  IF FieldType(k) = "text" THEN PyStrV(strip(w.v)) ELSE w

\* C20: a successful save_current_item replaces the selected record, at its
\* place, by a record whose keys are exactly the field keys of the schema,
\* with the values of the form; the keys of the old record outside the
\* schema are gone, the number of records is unchanged, every other record
\* keeps its place and content
C20_SaveReplacesSelected ==
    [][ (nops' # nops /\ op'.name = "save_current_item" /\ op'.outcome = "done")
        => /\ sel \in 1..Len(Listbox)
           /\ Len(records') = Len(records)
           /\ \E idx \in 1..Len(records) :
                  /\ NameOf(records[idx]) = Listbox[sel]
                  /\ \A i \in 1..Len(records) : i # idx => records'[i] = records[i]
                  /\ records'[idx].t = "d"
                  /\ Keys(records'[idx].v) = SchemaKeys
                  /\ Len(records'[idx].v) = Cardinality(SchemaKeys)
                  /\ \A k \in SchemaKeys :
                         DictGet(records'[idx].v, k, None) = FormValue(op'.arg, k)
      ]_vars

\* a save over a record that had a key outside the schema, with another
\* record in the set
C20_Witness ==
    /\ op.name = "save_current_item"
    /\ op.outcome = "done"
    /\ Len(records) >= 2
    /\ HasKey(op.steps[1].v, kX)
    /\ ~HasKey(records[op.start].v, kX)

=============================================================================
